---- MODULE Spec2Model ----
(***************************************************************************)
(* A model of the locally authored decision logic of fmriprep-rodents:     *)
(*   - the CompCor retry wrappers (fprodents/interfaces/patches.py),        *)
(*   - BIDSDataGrabber._run_interface and                                   *)
(*     RobustMNINormalization._get_ants_args                                *)
(*     (fmriprep_rodents/patch/interfaces/__init__.py),                     *)
(*   - the echo-count gate of init_func_preproc_wf and                      *)
(*     init_reference_workflow,                                             *)
(*   - the fieldmap-estimator loop of init_single_subject_wf,               *)
(*   - the workflow builders init_anat_preproc_wf, init_bold_reg_wf and     *)
(*     init_bold_reference_wf,                                              *)
(*   - the helpers fix_multi_source_name, get_template_specs,               *)
(*     extract_entities, _get_wf_name and _probseg_fast2bids.               *)
(*   - the build-time input check of init_single_subject_wf,              *)
(*   - the transform chains of init_bold_t1_trans_wf and                   *)
(*     init_bold_std_trans_wf,                                             *)
(*   - the connections init_func_preproc_wf requests, block by block, and  *)
(*     the PEPOLAR rewiring of init_single_subject_wf.                     *)
(* One behaviour of the model is one call of one of these routines: Init   *)
(* picks the routine (prog) and its inputs, the actions are the routine's  *)
(* steps.  The variables of the routines that are not running keep their   *)
(* idle value.                                                             *)
(***************************************************************************)
EXTENDS Integers, Sequences, FiniteSets, TLC

VARIABLES
    prog,   \* the routine this behaviour runs
    cc,     \* RobustACompCor / RobustTCompCor ._run_interface
    grab,   \* BIDSDataGrabber._run_interface
    ants,   \* RobustMNINormalization._get_ants_args
    func,   \* init_func_preproc_wf (echo gate)
    refwf,  \* init_reference_workflow
    subj,   \* init_single_subject_wf (fieldmap estimator loop)
    anat,  \* init_anat_preproc_wf
    fms,   \* fix_multi_source_name
    tpl,   \* get_template_specs
    f2b,   \* _probseg_fast2bids
    wfn,   \* _get_wf_name
    ent,   \* extract_entities
    reg,   \* init_bold_reg_wf
    bref,   \* init_bold_reference_wf
    brun,  \* init_single_subject_wf, then the run of bidssrc
    xfm,   \* the one-shot resampling workflows being built
    fpw,   \* init_func_preproc_wf (workflow build)
    pewf   \* init_single_subject_wf (PEPOLAR rewiring)

vars ==
    <<prog, cc, grab, ants, func, refwf, subj, anat, fms, tpl, f2b, wfn, ent,
      reg, bref, brun, xfm, fpw, pewf>>

Programs ==
    {"compcor", "grabber", "ants", "func", "refwf", "subject", "anat",
     "fix_multi_source_name", "get_template_specs", "probseg_fast2bids",
     "get_wf_name", "extract_entities", "bold_reg", "bold_reference",
     "build_run",
     "bold_trans",
     "func_preproc",
     "pepolar_rewire"}

NoExc == [type |-> "none", attempt |-> 0]

(***************************************************************************)
(* CompCor retry wrappers                                                  *)
(***************************************************************************)

\* `if failures > 10: raise`
MaxRetries == 10
\* `start = (failures - 1) * 10`
SleepStride == 10
\* `randint(start + 4, start + 10)`
SleepLo == 4
SleepHi == 10

CompCorClasses == {"RobustACompCor", "RobustTCompCor"}

\* What one call of the wrapped nac.ACompCor/TCompCor._run_interface can do.
DecompositionOutcomes == {"ok", "LinAlgError", "OtherError"}

\* random.randint(a, b): an integer N with a <= N <= b (both ends included).
randint(a, b) == a..b

\* (variant: the budget test written with >=)
BudgetOffByOne(failures) == failures >= MaxRetries
\* `if failures > 10: raise` after `failures += 1`
BudgetExhausted(failures) == failures > MaxRetries

\* (variant: the sleep window does not move with the failure count)
SleepStartNoBackoff(failures) == 0
\* `start = (failures - 1) * 10`
SleepStart(failures) == (failures - 1) * SleepStride

\* the argument of `sleep(randint(start + 4, start + 10))`
SleepChoices(failures) ==
    randint(SleepStart(failures) + SleepLo, SleepStart(failures) + SleepHi)

CompCorIdle ==
    [cls |-> "none", pc |-> "idle", failures |-> 0, attempts |-> 0,
     sleeps |-> 0, slept |-> 0, outcome |-> "none", exc |-> NoExc, result |-> 0]

\* `failures = 0; while True:` -- about to make the first attempt
CompCorStart(c) ==
    [CompCorIdle EXCEPT !.cls = c, !.pc = "call"]

\* One pass through the `try:` of the loop: the wrapped _run_interface is
\* invoked and either returns (break; return runtime), raises LinAlgError
\* (caught: count it, re-raise when the budget is exhausted, otherwise go to
\* sleep) or raises something else (not caught: propagates).
CompCorCall(o) ==
    /\ prog = "compcor"
    /\ cc.pc = "call"
    /\ LET n == cc.attempts + 1
           f == cc.failures + 1
       IN  cc' = CASE o = "ok" ->
                       [cc EXCEPT !.attempts = n, !.outcome = o,
                                  !.pc = "returned", !.result = n]
                   [] o = "LinAlgError" ->
                       IF BudgetExhausted(f)
                       THEN [cc EXCEPT !.attempts = n, !.outcome = o,
                                       !.failures = f, !.pc = "raised",
                                       !.exc = [type |-> "LinAlgError",
                                                attempt |-> n]]
                       ELSE [cc EXCEPT !.attempts = n, !.outcome = o,
                                       !.failures = f, !.pc = "sleep"]
                   [] OTHER ->
                       [cc EXCEPT !.attempts = n, !.outcome = o,
                                  !.pc = "raised",
                                  !.exc = [type |-> o, attempt |-> n]]
    /\ UNCHANGED <<prog, grab, ants, func, refwf, subj, anat, fms, tpl, f2b, wfn, ent, reg, bref, brun, xfm, fpw, pewf>>

\* `sleep(randint(start + 4, start + 10))`, then back to the top of the loop
CompCorSleep ==
    /\ prog = "compcor"
    /\ cc.pc = "sleep"
    /\ \E d \in SleepChoices(cc.failures) :
          cc' = [cc EXCEPT !.sleeps = @ + 1, !.slept = d, !.pc = "call"]
    /\ UNCHANGED <<prog, grab, ants, func, refwf, subj, anat, fms, tpl, f2b, wfn, ent, reg, bref, brun, xfm, fpw, pewf>>

(***************************************************************************)
(* BIDSDataGrabber._run_interface                                          *)
(***************************************************************************)

\* most files of one image type in subject_data
MaxFiles == 1

ImTypes == {"t2w", "bold", "t1w", "flair", "fmap", "sbref", "roi"}

\* `for imtype in ["bold", "t1w", "flair", "fmap", "sbref", "roi"]`
LoggedTypes == {"bold", "t1w", "flair", "fmap", "sbref", "roi"}

\* subject_data: for each image type the number of files in its list
SubjectData == [ImTypes -> 0..MaxFiles]

\* Python `not lst`
IsEmpty(n) == n = 0

GrabberIdle ==
    [pc |-> "idle", subject_data |-> [t \in ImTypes |-> 0],
     require_funcs |-> FALSE, exc |-> "none", msg |-> "none",
     out_dict |-> FALSE, logged |-> {}]

GrabberStart(d, rf) ==
    [GrabberIdle EXCEPT !.pc = "start", !.subject_data = d, !.require_funcs = rf]

\* (variant: the two checks in the other order)
GrabberErrorBoldFirst(d, rf) ==
    IF rf /\ IsEmpty(d["bold"]) THEN "functional"
    ELSE IF IsEmpty(d["t2w"]) THEN "T2w"
    ELSE "none"
\* The two checks of lines 26-35, in order: which error, if any, is raised.
GrabberError(d, rf) ==
    IF IsEmpty(d["t2w"]) THEN "T2w"
    ELSE IF rf /\ IsEmpty(d["bold"]) THEN "functional"
    ELSE "none"

\* The whole of _run_interface: store the results, raise on a missing
\* required type, otherwise log every empty optional type and return.
GrabberRun ==
    /\ prog = "grabber"
    /\ grab.pc = "start"
    /\ LET e == GrabberError(grab.subject_data, grab.require_funcs)
       IN  grab' = IF e # "none"
                   THEN [grab EXCEPT !.pc = "raised", !.out_dict = TRUE,
                                     !.exc = "FileNotFoundError", !.msg = e]
                   ELSE [grab EXCEPT !.pc = "returned", !.out_dict = TRUE,
                                     !.logged = {t \in LoggedTypes :
                                         IsEmpty(grab.subject_data[t])}]
    /\ UNCHANGED <<prog, cc, ants, func, refwf, subj, anat, fms, tpl, f2b, wfn, ent, reg, bref, brun, xfm, fpw, pewf>>

(***************************************************************************)
(* RobustMNINormalization._get_ants_args                                   *)
(*                                                                         *)
(* Files and the images computed from them are terms, tuples of strings:   *)
(* an input file <<"file", name>>, the result of niworkflows' mask()       *)
(* <<"mask", in_file, mask_file, out_name>> and of create_cfm()            *)
(* <<"create_cfm", in_file, lesion_mask, global_mask>>.  An args key that  *)
(* was never set is Unset.  The keys copied from the inputs unchanged      *)
(* (num_threads, float, terminal_output, write_composite_transform,        *)
(* initial_moving_transform) take no part in any decision and are left out.*)
(***************************************************************************)

Unset == <<"unset">>
File(name) == <<"file", name>>
\* niworkflows.interfaces.mni.mask(in_file, mask_file, new_name)
mask(in_file, mask_file, new_name) == <<"mask", in_file, mask_file, new_name>>
\* Python's str() of a bool, as it is passed for global_mask
PyBool(b) == IF b THEN "True" ELSE "False"
\* niworkflows.interfaces.mni.create_cfm(in_file, lesion_mask, global_mask)
create_cfm(in_file, lesion_mask, global_mask) ==
    <<"create_cfm", in_file, lesion_mask, PyBool(global_mask)>>

\* The inputs that decide the result; for a file input, whether it is defined.
AntsInputs ==
    LET \* local
        \* What the template lookup of the fallback branch finds: a unique template
        \* file, several files (get_template_specs raises RuntimeError), or a path
        \* that is no file (ValueError).
        TemplateOutcomes == {"unique", "nonunique", "nofile"}
        Orientations == {"RAS", "LAS"}
    IN  [moving_mask : BOOLEAN, explicit_masking : BOOLEAN, lesion_mask : BOOLEAN,
         reference_image : BOOLEAN, reference_mask : BOOLEAN,
         orientation : Orientations, template : TemplateOutcomes]

NoArgs ==
    [moving_image |-> Unset, moving_image_masks |-> Unset,
     fixed_image |-> Unset, fixed_image_masks |-> Unset]

\* (variant: the lesion mask is never looked at)
MovingArgsNoLesion(inp) ==
    IF inp.moving_mask
    THEN IF inp.explicit_masking
         THEN [moving_image |-> mask("moving_image", "moving_mask",
                                     "moving_masked.nii.gz"),
               moving_image_masks |-> Unset]
         ELSE [moving_image |-> File("moving_image"),
               moving_image_masks |-> File("moving_mask")]
    ELSE [moving_image |-> File("moving_image"), moving_image_masks |-> Unset]
\* Lines 95-169: args["moving_image"] and args["moving_image_masks"].
MovingArgs(inp) ==
    LET a0 == [moving_image |-> File("moving_image"),
               moving_image_masks |-> Unset]
    IN  IF inp.moving_mask
        THEN LET a1 == IF inp.explicit_masking
                       THEN [a0 EXCEPT !.moving_image =
                                mask("moving_image", "moving_mask",
                                     "moving_masked.nii.gz")]
                       ELSE [a0 EXCEPT !.moving_image_masks =
                                File("moving_mask")]
             IN  IF inp.lesion_mask
                 THEN [a1 EXCEPT !.moving_image_masks =
                          create_cfm("moving_mask", "lesion_mask",
                                     inp.explicit_masking)]
                 ELSE a1
        ELSE IF inp.lesion_mask
             THEN [a0 EXCEPT !.moving_image_masks =
                      create_cfm("moving_image", "lesion_mask", TRUE)]
             ELSE a0

\* (variant: the explicit_masking test negated)
ReferenceArgsSwapped(inp) ==
    LET f0 == [exc |-> "none", fixed_image |-> File("reference_image"),
               fixed_image_masks |-> Unset]
    IN  IF inp.reference_mask
        THEN IF ~inp.explicit_masking
             THEN LET f1 == [f0 EXCEPT !.fixed_image =
                                mask("reference_image", "reference_mask",
                                     "fixed_masked.nii.gz")]
                  IN  IF inp.lesion_mask
                      THEN [f1 EXCEPT !.fixed_image_masks =
                               create_cfm("reference_mask", "None", TRUE)]
                      ELSE f1
             ELSE [f0 EXCEPT !.fixed_image_masks = File("reference_mask")]
        ELSE IF inp.lesion_mask
             THEN [f0 EXCEPT !.fixed_image_masks =
                      create_cfm("reference_image", "None", TRUE)]
             ELSE f0
\* Lines 198-239: a reference image is provided.
ReferenceArgs(inp) ==
    LET f0 == [exc |-> "none", fixed_image |-> File("reference_image"),
               fixed_image_masks |-> Unset]
    IN  IF inp.reference_mask
        THEN IF inp.explicit_masking
             THEN LET f1 == [f0 EXCEPT !.fixed_image =
                                mask("reference_image", "reference_mask",
                                     "fixed_masked.nii.gz")]
                  IN  IF inp.lesion_mask
                      THEN [f1 EXCEPT !.fixed_image_masks =
                               create_cfm("reference_mask", "None", TRUE)]
                      ELSE f1
             ELSE [f0 EXCEPT !.fixed_image_masks = File("reference_mask")]
        ELSE IF inp.lesion_mask
             THEN [f0 EXCEPT !.fixed_image_masks =
                      create_cfm("reference_image", "None", TRUE)]
             ELSE f0

\* Lines 242-314: no reference image, fall back to the default template.
TemplateArgs(inp) ==
    LET raised(e) == [exc |-> e, fixed_image |-> Unset,
                      fixed_image_masks |-> Unset]
        f0 == [exc |-> "none", fixed_image |-> File("ref_template"),
               fixed_image_masks |-> File("ref_mask")]
    IN  IF inp.orientation = "LAS" THEN raised("NotImplementedError")
        ELSE IF inp.template = "nonunique" THEN raised("RuntimeError")
        ELSE IF inp.template = "nofile" THEN raised("ValueError")
        ELSE IF inp.explicit_masking
             THEN LET f1 == [f0 EXCEPT
                                !.fixed_image = mask("ref_template", "ref_mask",
                                                     "fixed_masked.nii.gz"),
                                !.fixed_image_masks = Unset]
                  IN  IF inp.lesion_mask
                      THEN [f1 EXCEPT !.fixed_image_masks =
                               create_cfm("ref_mask", "None", TRUE)]
                      ELSE f1
             ELSE f0

\* (variant: the orientation test made before the reference-image test)
FixedArgsLasAlways(inp) ==
    IF inp.orientation = "LAS"
    THEN [exc |-> "NotImplementedError", fixed_image |-> Unset,
          fixed_image_masks |-> Unset]
    ELSE IF inp.reference_image THEN ReferenceArgs(inp) ELSE TemplateArgs(inp)
\* Line 198: `if isdefined(self.inputs.reference_image): ... else: ...`
FixedArgs(inp) ==
    IF inp.reference_image THEN ReferenceArgs(inp) ELSE TemplateArgs(inp)

\* _get_ants_args: the args returned, or the exception raised instead.
GetAntsArgs(inp) ==
    LET m == MovingArgs(inp)
        f == FixedArgs(inp)
    IN  IF f.exc # "none"
        THEN [exc |-> f.exc, args |-> NoArgs]
        ELSE [exc |-> "none",
              args |-> [moving_image |-> m.moving_image,
                        moving_image_masks |-> m.moving_image_masks,
                        fixed_image |-> f.fixed_image,
                        fixed_image_masks |-> f.fixed_image_masks]]

AntsIdle ==
    [pc |-> "idle",
     inp |-> [moving_mask |-> FALSE, explicit_masking |-> FALSE,
              lesion_mask |-> FALSE, reference_image |-> FALSE,
              reference_mask |-> FALSE, orientation |-> "RAS",
              template |-> "unique"],
     exc |-> "none", args |-> NoArgs]

AntsStart(inp) == [AntsIdle EXCEPT !.pc = "start", !.inp = inp]

\* One call of _get_ants_args.
AntsRun ==
    /\ prog = "ants"
    /\ ants.pc = "start"
    /\ LET r == GetAntsArgs(ants.inp)
       IN  ants' = [ants EXCEPT
                       !.pc = IF r.exc = "none" THEN "returned" ELSE "raised",
                       !.exc = r.exc, !.args = r.args]
    /\ UNCHANGED <<prog, cc, grab, func, refwf, subj, anat, fms, tpl, f2b, wfn, ent, reg, bref, brun, xfm, fpw, pewf>>

(***************************************************************************)
(* The echo gate of init_func_preproc_wf and init_reference_workflow       *)
(*                                                                         *)
(* bold_file is a path (is_list FALSE, one file) or a list of paths.  Of a *)
(* file only its echo entity matters here: its echo index, 0 when the file *)
(* name has no echo entity.                                                *)
(***************************************************************************)

\* most files in one bold_file list
MaxBoldFiles == 4
\* largest echo index of a file name
MaxEchoIdx == 3

RECURSIVE SeqsUpTo(_, _)
\* the sequences over S of length 1..n
SeqsUpTo(S, n) ==
    IF n = 0 THEN {}
    ELSE [1..n -> S] \cup SeqsUpTo(S, n - 1)

BoldInputs ==
    {[is_list |-> FALSE, files |-> <<e>>] : e \in 0..MaxEchoIdx}
    \cup {[is_list |-> TRUE, files |-> fs] :
             fs \in SeqsUpTo(0..MaxEchoIdx, MaxBoldFiles)}

RECURSIVE SortedInts(_)
\* Python sorted(set(...)) of integers
SortedInts(S) ==
    IF S = {} THEN <<>>
    ELSE LET m == CHOOSE x \in S : \A y \in S : x <= y
         IN  <<m>> \o SortedInts(S \ {m})

\* extract_entities(bold_file).get("echo", []): the echo values of the files
\* that carry one, made unique and sorted; a single value is returned as a
\* scalar (_unique), no value at all gives the default [].
EntitiesEcho(bf) ==
    LET found == {bf.files[i] : i \in DOMAIN bf.files} \ {0}
    IN  IF Cardinality(found) = 1
        THEN [scalar |-> TRUE, vals |-> SortedInts(found)]
        ELSE [scalar |-> FALSE, vals |-> SortedInts(found)]

\* niworkflows listify: a scalar becomes a one-element list, a list stays
listify(v) == v.vals

\* `multiecho = len(echo_idxs) > 2`
Multiecho(echo_idxs) == Len(echo_idxs) > 2

\* `if len(echo_idxs) == 2: raise RuntimeError`
TwoEchoes(echo_idxs) == Len(echo_idxs) = 2

FuncIdle ==
    [pc |-> "idle", bold_file |-> [is_list |-> FALSE, files |-> <<0>>],
     echo_idxs |-> <<>>, multiecho |-> FALSE, warned |-> FALSE,
     dropped_list |-> FALSE, exc |-> "none"]

FuncStart(bf) == [FuncIdle EXCEPT !.pc = "start", !.bold_file = bf]

\* Lines 128-156 of init_func_preproc_wf: count the echoes, warn and drop
\* the list for one, raise for two, go on as multi-echo for more.
FuncEchoGate ==
    /\ prog = "func"
    /\ func.pc = "start"
    /\ LET idxs == listify(EntitiesEcho(func.bold_file))
           me == Multiecho(idxs)
           one == Len(idxs) = 1
       IN  func' = IF TwoEchoes(idxs)
                   THEN [func EXCEPT !.pc = "raised", !.echo_idxs = idxs,
                                     !.multiecho = me, !.warned = one,
                                     !.dropped_list = one,
                                     !.exc = "RuntimeError"]
                   ELSE [func EXCEPT !.pc = "build", !.echo_idxs = idxs,
                                     !.multiecho = me, !.warned = one,
                                     !.dropped_list = one]
    /\ UNCHANGED <<prog, cc, grab, ants, refwf, subj, anat, fms, tpl, f2b, wfn, ent, reg, bref, brun, xfm, fpw, pewf>>

\* Lines 158-799: the workflow is built and returned.
FuncBuild ==
    /\ prog = "func"
    /\ func.pc = "build"
    /\ func' = [func EXCEPT !.pc = "returned"]
    /\ UNCHANGED <<prog, cc, grab, ants, refwf, subj, anat, fms, tpl, f2b, wfn, ent, reg, bref, brun, xfm, fpw, pewf>>

RefWfIdle ==
    [pc |-> "idle", bold_file |-> [is_list |-> FALSE, files |-> <<0>>],
     multiecho |-> FALSE, in_files |-> "none", exc |-> "none"]

RefWfStart(bf) == [RefWfIdle EXCEPT !.pc = "start", !.bold_file = bf]

\* pathlib.Path(x) accepts a str (or os.PathLike) and raises TypeError for
\* a list.
\* Line 661: `Workflow(name=f"{Path(bold_file).name.split('.')[0]}_ref_wf")`
PathOfBoldFile(bf) == IF bf.is_list THEN "TypeError" ELSE "none"

\* init_reference_workflow: name the workflow after the file, then pick
\* the input of the reference workflow by the echo count.
RefWfRun ==
    /\ prog = "refwf"
    /\ refwf.pc = "start"
    /\ LET e == PathOfBoldFile(refwf.bold_file)
           me == Multiecho(listify(EntitiesEcho(refwf.bold_file)))
       IN  refwf' = IF e # "none"
                    THEN [refwf EXCEPT !.pc = "raised", !.exc = e]
                    ELSE [refwf EXCEPT !.pc = "returned", !.multiecho = me,
                                       !.in_files = IF me THEN "bold_file[0]"
                                                    ELSE "bold_file"]
    /\ UNCHANGED <<prog, cc, grab, ants, func, subj, anat, fms, tpl, f2b, wfn, ent, reg, bref, brun, xfm, fpw, pewf>>

(***************************************************************************)
(* The fieldmap part of init_single_subject_wf (lines 384-613)             *)
(***************************************************************************)

\* most estimators found for a subject
MaxEstimators == 2
\* most sources of one PEPOLAR estimator
MaxSources == 2

\* the suffixes a PEPOLAR source can have, in alphabetical order
PepolarSuffixes == <<"bold", "dwi", "epi">>

SuffixRank(s) == CHOOSE i \in DOMAIN PepolarSuffixes : PepolarSuffixes[i] = s

RECURSIVE Insert(_, _)
Insert(x, sorted_seq) ==
    IF sorted_seq = <<>> THEN <<x>>
    ELSE IF SuffixRank(x) <= SuffixRank(Head(sorted_seq))
         THEN <<x>> \o sorted_seq
         ELSE <<Head(sorted_seq)>> \o Insert(x, Tail(sorted_seq))

RECURSIVE sorted(_)
\* Python sorted() of a list of suffix strings
sorted(seq) ==
    IF seq = <<>> THEN <<>> ELSE Insert(Head(seq), sorted(Tail(seq)))

\* Python set() of a list
set(seq) == {seq[i] : i \in DOMAIN seq}

Estimators ==
    {[method |-> "PEPOLAR", suffices |-> ss] :
        ss \in SeqsUpTo(set(PepolarSuffixes), MaxSources)}
    \cup {[method |-> "MAPPED", suffices |-> <<"fieldmap", "magnitude">>],
          [method |-> "PHASEDIFF", suffices |-> <<"phasediff", "magnitude1">>],
          [method |-> "ANAT", suffices |-> <<"bold", "T2w">>]}

\* (variant: any source with suffix epi is enough)
PepolarSupportedAnyEpi(suffices) == "epi" \in set(suffices)
\* `set(suffices) == {"epi"} or sorted(suffices) == ["bold", "epi"]`
PepolarSupported(suffices) ==
    \/ set(suffices) = {"epi"}
    \/ sorted(suffices) = <<"bold", "epi">>

\* One pass of `for estimator in fmap_estimators`: what is done with it.
EstimatorAction(est) ==
    IF est.method \in {"MAPPED", "PHASEDIFF"} THEN "continue"
    ELSE IF est.method = "PEPOLAR"
         THEN IF PepolarSupported(est.suffices) THEN "pepolar_wired"
              ELSE "NotImplementedError"
    ELSE IF est.method = "ANAT" THEN "syn_wired"
    ELSE "nothing"

\* The BOLD run of the subject as collect_data returns it: one path, or the
\* list of the files of a run with three echoes.
SubjectBoldRuns ==
    {[is_list |-> FALSE, files |-> <<0>>],
     [is_list |-> TRUE, files |-> <<1, 2, 3>>]}

SubjIdle ==
    [pc |-> "idle", bold_file |-> [is_list |-> FALSE, files |-> <<0>>],
     estimators |-> <<>>, ref_source |-> "none", i |-> 1, pepolar |-> {},
     syn |-> {}, skipped |-> {}, connections |-> {}, exc |-> "none",
     at |-> "none"]

\* `has_fieldmap = bool(fmap_estimators)`: with an empty list the branch of
\* line 370 is taken, otherwise line 384 is reached.
SubjStart(bf, ests) ==
    [SubjIdle EXCEPT !.pc = IF ests = <<>> THEN "nofmap" ELSE "reference",
                     !.bold_file = bf, !.estimators = ests]

\* Lines 374-381 and 443-450: the reference workflow of the run feeds the
\* reference inputs of its functional workflow.
RefWfConnections ==
    {<<"ref_wf", "outputnode.ref_file", "func_preproc_wf",
       "inputnode.ref_file">>,
     <<"ref_wf", "outputnode.bold_ref_xfm", "func_preproc_wf",
       "inputnode.bold_ref_xfm">>,
     <<"ref_wf", "outputnode.validation_report", "func_preproc_wf",
       "inputnode.validation_report">>,
     <<"ref_wf", "outputnode.n_dummy_scans", "func_preproc_wf",
       "inputnode.n_dummy_scans">>}

\* `estimator.bids_id`: an identifier of its own for each estimator (here:
\* numbered by its place in the list).
BidsIds == <<"auto_00000", "auto_00001", "auto_00002", "auto_00003">>

\* `name=f"syn_preprocessing_{estimator.bids_id}"`: one workflow per ANAT
\* estimator.
SynName(j) == "syn_preprocessing_" \o BidsIds[j]

\* (variant: a destination port may be connected again)
AlreadyConnectedNever(connections, conns) == {}
\* nipype's Workflow.connect: the requested connections whose destination
\* port already has an edge ("... is already connected").
AlreadyConnected(connections, conns) ==
    {c \in conns : \E d \in connections : d[3] = c[3] /\ d[4] = c[4]}

\* One `workflow.connect([...])` call of init_single_subject_wf: the
\* connections are requested, and nipype raises Exception when a
\* destination port is already connected.
SubjConnect(sj, conns) ==
    IF sj.pc = "raised" THEN sj
    ELSE IF AlreadyConnected(sj.connections, conns) # {}
         THEN [sj EXCEPT !.connections = @ \cup conns, !.pc = "raised",
                         !.exc = "Exception", !.at = "connect"]
         ELSE [sj EXCEPT !.connections = @ \cup conns]

\* Lines 370-382: without fieldmap estimators the reference workflow of
\* the run is built and connected, and the workflow is returned.
SubjNoFieldmap ==
    /\ prog = "subject"
    /\ subj.pc = "nofmap"
    /\ LET e == PathOfBoldFile(subj.bold_file)
       IN  subj' = IF e # "none"
                   THEN [subj EXCEPT !.pc = "raised", !.exc = e,
                                     !.at = "reference"]
                   ELSE [SubjConnect(subj, RefWfConnections) EXCEPT
                            !.pc = "returned", !.ref_source = "ref_wf"]
    /\ UNCHANGED <<prog, cc, grab, ants, func, refwf, anat, fms, tpl, f2b, wfn, ent, reg, bref, brun, xfm, fpw, pewf>>

\* `any(estimator.method == fm.EstimatorType.ANAT ...)`
AnyAnat(ests) == \E j \in DOMAIN ests : ests[j].method = "ANAT"

\* Lines 430-451: with an ANAT estimator the standard-space selector is
\* connected; without one the reference workflow of the run is built by
\* init_reference_workflow, whose exception, if any, propagates.
SubjReference ==
    LET \* local
        \* Lines 432-436.
        SelectStdConnections ==
            {<<"anat_preproc_wf", "outputnode.std2anat_xfm", "fmap_select_std",
               "std2anat_xfm">>,
             <<"anat_preproc_wf", "outputnode.template", "fmap_select_std", "keys">>}
    IN  /\ prog = "subject"
        /\ subj.pc = "reference"
        /\ LET e == PathOfBoldFile(subj.bold_file)
           IN  subj' = IF AnyAnat(subj.estimators)
                       THEN [SubjConnect(subj, SelectStdConnections) EXCEPT
                                !.pc = "loop"]
                       ELSE IF e # "none"
                            THEN [subj EXCEPT !.pc = "raised", !.exc = e,
                                              !.at = "reference"]
                            ELSE [SubjConnect(subj, RefWfConnections) EXCEPT
                                     !.pc = "loop", !.ref_source = "ref_wf"]
        /\ UNCHANGED <<prog, cc, grab, ants, func, refwf, anat, fms, tpl, f2b, wfn, ent, reg, bref, brun, xfm, fpw, pewf>>

\* The body of the loop for the next estimator.
SubjEstimator ==
    LET \* local
        \* Lines 602-611: the SyN preprocessing workflow of estimator j feeds the
        \* reference inputs of the functional workflow.
        SynReferenceConnections(j) ==
            {<<SynName(j), "epi_reference_wf.outputnode.epi_ref_file",
               "func_preproc_wf", "inputnode.ref_file">>,
             <<SynName(j), "epi_reference_wf.outputnode.xfm_files",
               "func_preproc_wf", "inputnode.bold_ref_xfm">>,
             <<SynName(j), "epi_reference_wf.outputnode.validation_report",
               "func_preproc_wf", "inputnode.validation_report">>,
             <<SynName(j), "epi_reference_wf.outputnode.n_dummy",
               "func_preproc_wf", "inputnode.n_dummy_scans">>}
        \* Lines 585-601: the SyN preprocessing workflow of estimator j is fed by
        \* the anatomical workflow, the prior and the selector, and feeds fmap_wf.
        SynConnections(j) ==
            LET \* local
                \* `f"in_{estimator.bids_id}.epi_ref"`: a port of fmap_wf for that estimator
                FmapIn(field) == "in_" \o BidsIds[j] \o "." \o field
            IN  {<<"anat_preproc_wf", "outputnode.t2w_preproc", SynName(j),
                   "inputnode.in_anat">>,
                 <<"anat_preproc_wf", "outputnode.t2w_mask", SynName(j),
                   "inputnode.mask_anat">>,
                 <<"create_prior", "out", SynName(j), "prior2epi.input_image">>,
                 <<"fmap_select_std", "std2anat_xfm", SynName(j),
                   "inputnode.std2anat_xfm">>}
                \cup {<<SynName(j), "outputnode." \o f, "fmap_wf", FmapIn(f)>> :
                         f \in {"epi_ref", "epi_mask", "anat_ref", "anat_mask",
                                "sd_prior"}}
    IN  /\ prog = "subject"
        /\ subj.pc = "loop"
        /\ subj.i <= Len(subj.estimators)
        /\ LET a == EstimatorAction(subj.estimators[subj.i])
           IN  subj' = CASE a = "continue" ->
                             [subj EXCEPT !.skipped = @ \cup {subj.i}, !.i = @ + 1]
                         [] a = "pepolar_wired" ->
                             [subj EXCEPT !.pepolar = @ \cup {subj.i}, !.i = @ + 1]
                         [] a = "syn_wired" ->
                             LET s1 == SubjConnect(subj, SynConnections(subj.i))
                                 s2 == SubjConnect(s1,
                                          SynReferenceConnections(subj.i))
                             IN  IF s2.pc = "raised" THEN s2
                                 ELSE [s2 EXCEPT
                                         !.syn = @ \cup {subj.i},
                                         !.ref_source = "syn_preprocessing_wf",
                                         !.i = @ + 1]
                         [] a = "NotImplementedError" ->
                             [subj EXCEPT !.pc = "raised", !.exc = a,
                                          !.at = "loop"]
                         [] OTHER -> [subj EXCEPT !.i = @ + 1]
        /\ UNCHANGED <<prog, cc, grab, ants, func, refwf, anat, fms, tpl, f2b, wfn, ent, reg, bref, brun, xfm, fpw, pewf>>

\* Line 613: the loop is over, `return workflow`.
SubjReturn ==
    /\ prog = "subject"
    /\ subj.pc = "loop"
    /\ subj.i > Len(subj.estimators)
    /\ subj' = [subj EXCEPT !.pc = "returned"]
    /\ UNCHANGED <<prog, cc, grab, ants, func, refwf, anat, fms, tpl, f2b, wfn, ent, reg, bref, brun, xfm, fpw, pewf>>

(***************************************************************************)
(* init_anat_preproc_wf (fmriprep_rodents/patch/workflows/anatomical.py)   *)
(***************************************************************************)

\* most T2w images of one subject
MaxT2w == 2

\* The arguments of a call: whether existing_derivatives is given (not
\* None), the skull-strip mode, and for each T2w image whether _check_img
\* finds it stripped (sidevals < 10).
AnatInputs ==
    LET \* local
        \* the values of skull_strip_mode the docstring names
        SkullStripModes == {"auto", "skip", "force"}
    IN  [existing_derivatives : BOOLEAN,
         skull_strip_mode : SkullStripModes,
         t2w : {<<>>} \cup SeqsUpTo(BOOLEAN, MaxT2w)]

\* the identity nodes the workflow declares itself
OwnNodes == {"inputnode", "outputnode", "buffernode"}

\* the <<node, field>> pairs a set of fields declares on a node
Fields(node, fields) == {<<node, f>> : f \in fields}

\* The ports of a connection list that the workflow's own identity nodes
\* were not declared with.
NotFound(declared, conns) ==
    {c \in conns : \/ c[1] \in OwnNodes /\ <<c[1], c[2]>> \notin declared
                   \/ c[3] \in OwnNodes /\ <<c[3], c[4]>> \notin declared}

\* One `workflow.connect([...])` call: the listed connections are requested
\* and nipype raises Exception("Some connections were not found") when a
\* node lacks one of the named ports.
connect(a, conns) ==
    IF a.pc = "raised" THEN a
    ELSE IF NotFound(a.declared, conns) = {}
         THEN [a EXCEPT !.connections = @ \cup conns]
         ELSE [a EXCEPT !.connections = @ \cup conns,
                        !.pc = "raised", !.exc = "Exception"]

\* (variant: one stripped image is enough)
IsSkullStrippedAny(imgs) == \E i \in DOMAIN imgs : imgs[i]
\* `_is_skull_stripped`: all(_check_img(img) for img in imgs)
is_skull_stripped(imgs) == \A i \in DOMAIN imgs : imgs[i]

AnatIdle ==
    [pc |-> "idle",
     args |-> [existing_derivatives |-> FALSE, skull_strip_mode |-> "force",
               t2w |-> <<>>],
     skull_strip_mode |-> "force", declared |-> {}, connections |-> {},
     brain_extraction_wf |-> FALSE, exc |-> "none"]

AnatStart(inp) ==
    [AnatIdle EXCEPT !.pc = "start", !.args = inp,
                     !.skull_strip_mode = inp.skull_strip_mode]

\* Lines 138-181: declare inputnode and outputnode, connect the reportlets
\* workflow.
AnatDeclare ==
    LET \* local
        \* the fields of outputnode, lines 150-162
        OutputnodeFields ==
            {"t2w_preproc", "t2w_mask", "t2w_dseg", "t2w_tpms", "std_preproc",
             "std_mask", "std_dseg", "std_tpms", "anat2std_xfm", "std2anat_xfm",
             "template"}
        \* `fields=["t2w", "roi"]`
        InputnodeFields == {"t2w", "roi"}
        \* A connection is <<source node, source port, destination node,
        \* destination port>>; a source given as (port, function) is its port.
        \* Lines 169-181.
        ReportConnections ==
            {<<"outputnode", "t2w_preproc", "anat_reports_wf", "inputnode.t1w_preproc">>,
             <<"outputnode", "t2w_mask", "anat_reports_wf", "inputnode.t1w_mask">>,
             <<"outputnode", "t2w_dseg", "anat_reports_wf", "inputnode.anat_dseg">>}
    IN  /\ prog = "anat"
        /\ anat.pc = "start"
        /\ LET a == [anat EXCEPT !.pc = "declared",
                                 !.declared = Fields("inputnode", InputnodeFields)
                                     \cup Fields("outputnode", OutputnodeFields)]
           IN  anat' = connect(a, ReportConnections)
        /\ UNCHANGED <<prog, cc, grab, ants, func, refwf, subj, fms, tpl, f2b, wfn, ent, reg, bref, brun, xfm, fpw, pewf>>

\* Lines 183-245: with existing derivatives the prior outputs are wired to
\* the reports and the workflow is returned; skull_strip_mode is not read.
AnatReuse ==
    LET \* local
        \* Lines 213-244.
        ReuseConnections ==
            {<<"inputnode", "subjects_dir", "outputnode", "subjects_dir">>,
             <<"inputnode", "subject_id", "outputnode", "subject_id">>,
             <<"inputnode", "subjects_dir", "anat_reports_wf", "inputnode.subjects_dir">>,
             <<"inputnode", "subject_id", "anat_reports_wf", "inputnode.subject_id">>,
             <<"templatesource", "template", "stdselect", "key">>,
             <<"outputnode", "std_preproc", "stdselect", "std_preproc">>,
             <<"outputnode", "std_mask", "stdselect", "std_mask">>,
             <<"stdselect", "key", "anat_reports_wf", "inputnode.template">>,
             <<"stdselect", "std_preproc", "anat_reports_wf", "inputnode.std_t1w">>,
             <<"stdselect", "std_mask", "anat_reports_wf", "inputnode.std_mask">>}
    IN  /\ prog = "anat"
        /\ anat.pc = "declared"
        /\ anat.args.existing_derivatives
        /\ LET a == connect(anat, ReuseConnections)
           IN  anat' = IF a.pc = "raised" THEN a ELSE [a EXCEPT !.pc = "returned"]
        /\ UNCHANGED <<prog, cc, grab, ants, func, refwf, subj, fms, tpl, f2b, wfn, ent, reg, bref, brun, xfm, fpw, pewf>>

\* Lines 247-326: declare buffernode, resolve mode "auto" to the detection
\* result, then raise for True/"skip" or build the brain extraction.
AnatSkullStrip ==
    LET \* local
        \* `fields=["t2w_brain", "t2w_mask"]`
        BuffernodeFields == {"t2w_brain", "t2w_mask"}
    IN  /\ prog = "anat"
        /\ anat.pc = "declared"
        /\ ~anat.args.existing_derivatives
        /\ LET mode == IF anat.skull_strip_mode = "auto"
                       THEN PyBool(is_skull_stripped(anat.args.t2w))
                       ELSE anat.skull_strip_mode
               a == [anat EXCEPT !.skull_strip_mode = mode,
                                 !.declared = @ \cup Fields("buffernode",
                                                            BuffernodeFields)]
           IN  anat' = IF mode \in {"True", "skip"}
                       THEN [a EXCEPT !.pc = "raised",
                                      !.exc = "NotImplementedError"]
                       ELSE [a EXCEPT !.pc = "extract",
                                      !.brain_extraction_wf = TRUE]
        /\ UNCHANGED <<prog, cc, grab, ants, func, refwf, subj, fms, tpl, f2b, wfn, ent, reg, bref, brun, xfm, fpw, pewf>>

\* Lines 328-496: normalization, derivatives and segmentation are wired by
\* three connect calls and the workflow is returned.
AnatConnect ==
    LET \* local
        \* Lines 451-494.
        SegmentationConnections ==
            {<<"brain_extraction_wf", "outputnode.out_brain", "buffernode", "t2w_brain">>,
             <<"brain_extraction_wf", "outputnode.out_mask", "buffernode", "t2w_mask">>,
             <<"buffernode", "t2w_brain", "anat_dseg", "in_files">>,
             <<"brain_extraction_wf", "outputnode.out_corrected", "xfm_gm", "reference_image">>,
             <<"brain_extraction_wf", "outputnode.out_corrected", "xfm_wm", "reference_image">>,
             <<"brain_extraction_wf", "outputnode.out_corrected", "xfm_csf", "reference_image">>,
             <<"anat_norm_wf", "outputnode.std2anat_xfm", "xfm_gm", "transforms">>,
             <<"anat_norm_wf", "outputnode.std2anat_xfm", "xfm_wm", "transforms">>,
             <<"anat_norm_wf", "outputnode.std2anat_xfm", "xfm_csf", "transforms">>,
             <<"xfm_gm", "output_image", "mrg_tpms", "in1">>,
             <<"xfm_wm", "output_image", "mrg_tpms", "in2">>,
             <<"xfm_csf", "output_image", "mrg_tpms", "in3">>,
             <<"mrg_tpms", "out", "anat_dseg", "other_priors">>,
             <<"anat_dseg", "partial_volume_map", "lut_anat_dseg", "in_dseg">>,
             <<"lut_anat_dseg", "out", "outputnode", "t2w_dseg">>,
             <<"anat_dseg", "partial_volume_files", "fast2bids", "inlist">>,
             <<"fast2bids", "out", "outputnode", "t2w_tpms">>,
             <<"outputnode", "t2w_tpms", "anat_derivatives_wf", "inputnode.anat_tpms">>,
             <<"outputnode", "t2w_dseg", "anat_derivatives_wf", "inputnode.anat_dseg">>,
             <<"anat_norm_wf", "poutputnode.standardized", "xfm_dseg", "reference_image">>,
             <<"lut_anat_dseg", "out", "xfm_dseg", "input_image">>,
             <<"anat_norm_wf", "poutputnode.anat2std_xfm", "xfm_dseg", "transforms">>,
             <<"anat_norm_wf", "poutputnode.standardized", "xfm_tpms", "reference_image">>,
             <<"fast2bids", "out", "xfm_tpms", "input_image">>,
             <<"anat_norm_wf", "poutputnode.anat2std_xfm", "xfm_tpms", "transforms">>,
             <<"xfm_dseg", "output_image", "outputnode", "std_dseg">>,
             <<"xfm_tpms", "output_image", "outputnode", "std_tpms">>,
             <<"outputnode", "std_dseg", "anat_derivatives_wf", "inputnode.std_dseg">>,
             <<"outputnode", "std_tpms", "anat_derivatives_wf", "inputnode.std_tpms">>}
        \* Lines 386-400.
        DerivativesConnections ==
            {<<"anat_template_wf", "outputnode.t1w_valid_list", "anat_derivatives_wf", "inputnode.source_files">>,
             <<"anat_norm_wf", "outputnode.template", "anat_derivatives_wf", "inputnode.template">>,
             <<"anat_norm_wf", "outputnode.anat2std_xfm", "anat_derivatives_wf", "inputnode.anat2std_xfm">>,
             <<"anat_norm_wf", "outputnode.std2anat_xfm", "anat_derivatives_wf", "inputnode.std2anat_xfm">>,
             <<"outputnode", "t2w_ref_xfms", "anat_derivatives_wf", "inputnode.t1w_ref_xfms">>,
             <<"outputnode", "t2w_preproc", "anat_derivatives_wf", "inputnode.t1w_preproc">>,
             <<"outputnode", "t2w_mask", "anat_derivatives_wf", "inputnode.t1w_mask">>}
        \* Lines 336-374.
        MainConnections ==
            {<<"inputnode", "t2w", "anat_template_wf", "inputnode.t1w">>,
             <<"anat_template_wf", "outputnode.t1w_ref", "anat_validate", "in_file">>,
             <<"anat_validate", "out_file", "brain_extraction_wf", "inputnode.in_files">>,
             <<"brain_extraction_wf", "outputnode.out_corrected", "outputnode", "t2w_preproc">>,
             <<"anat_template_wf", "outputnode.t1w_realign_xfm", "outputnode", "t2w_ref_xfms">>,
             <<"buffernode", "t2w_brain", "outputnode", "t2w_brain">>,
             <<"buffernode", "t2w_mask", "outputnode", "t2w_mask">>,
             <<"inputnode", "t2w", "anat_norm_wf", "inputnode.orig_t1w">>,
             <<"inputnode", "roi", "anat_norm_wf", "inputnode.lesion_mask">>,
             <<"brain_extraction_wf", "outputnode.out_corrected", "anat_norm_wf", "inputnode.moving_image">>,
             <<"buffernode", "t2w_mask", "anat_norm_wf", "inputnode.moving_mask">>,
             <<"anat_norm_wf", "poutputnode.standardized", "outputnode", "std_preproc">>,
             <<"anat_norm_wf", "poutputnode.std_mask", "outputnode", "std_mask">>,
             <<"anat_norm_wf", "outputnode.template", "outputnode", "template">>,
             <<"anat_norm_wf", "outputnode.anat2std_xfm", "outputnode", "anat2std_xfm">>,
             <<"anat_norm_wf", "outputnode.std2anat_xfm", "outputnode", "std2anat_xfm">>,
             <<"inputnode", "t2w", "anat_reports_wf", "inputnode.source_file">>,
             <<"outputnode", "std_preproc", "anat_reports_wf", "inputnode.std_t1w">>,
             <<"outputnode", "std_mask", "anat_reports_wf", "inputnode.std_mask">>,
             <<"anat_template_wf", "outputnode.out_report", "anat_reports_wf", "inputnode.t1w_conform_report">>,
             <<"anat_norm_wf", "poutputnode.template", "anat_reports_wf", "inputnode.template">>}
    IN  /\ prog = "anat"
        /\ anat.pc = "extract"
        /\ LET a == connect(connect(connect(anat, MainConnections),
                                    DerivativesConnections),
                            SegmentationConnections)
           IN  anat' = IF a.pc = "raised" THEN a ELSE [a EXCEPT !.pc = "returned"]
        /\ UNCHANGED <<prog, cc, grab, ants, func, refwf, subj, fms, tpl, f2b, wfn, ent, reg, bref, brun, xfm, fpw, pewf>>

(***************************************************************************)
(* Strings.  A string is a sequence of atoms: the separators "/", "_", "-" *)
(* and "." stand for themselves and every other atom is a run of           *)
(* characters that holds none of them.                                     *)
(***************************************************************************)

\* the least index of atom ch in s, 0 when there is none
FirstIndex(s, ch) ==
    IF \E i \in DOMAIN s : s[i] = ch
    THEN CHOOSE i \in DOMAIN s : s[i] = ch /\ \A j \in 1..(i - 1) : s[j] # ch
    ELSE 0

\* the greatest index of atom ch in s, 0 when there is none
LastIndex(s, ch) ==
    IF \E i \in DOMAIN s : s[i] = ch
    THEN CHOOSE i \in DOMAIN s :
             s[i] = ch /\ \A j \in (i + 1)..Len(s) : s[j] # ch
    ELSE 0

RECURSIVE rstrip(_, _)
\* str.rstrip(ch)
rstrip(s, ch) ==
    IF s # <<>> /\ s[Len(s)] = ch THEN rstrip(SubSeq(s, 1, Len(s) - 1), ch)
    ELSE s

RECURSIVE split(_, _)
\* str.split(sep): the pieces between the occurrences of sep
split(s, sep) ==
    LET i == FirstIndex(s, sep)
    IN  IF i = 0 THEN <<s>>
        ELSE <<SubSeq(s, 1, i - 1)>> \o split(SubSeq(s, i + 1, Len(s)), sep)

\* str.split(sep, 1)[0]: the part before the first sep
split1_head(s, sep) ==
    LET i == FirstIndex(s, sep)
    IN  IF i = 0 THEN s ELSE SubSeq(s, 1, i - 1)

\* os.path.split: <<head, tail>> around the last "/", the head without its
\* trailing slashes unless it is only slashes
os_path_split(p) ==
    LET i == LastIndex(p, "/")
        head == SubSeq(p, 1, i)
        tail == SubSeq(p, i + 1, Len(p))
    IN  <<IF \E k \in DOMAIN head : head[k] # "/" THEN rstrip(head, "/")
          ELSE head,
          tail>>

\* os.path.join(a, b)
os_path_join(a, b) ==
    IF b # <<>> /\ b[1] = "/" THEN b
    ELSE IF a = <<>> \/ a[Len(a)] = "/" THEN a \o b
    ELSE a \o <<"/">> \o b

(***************************************************************************)
(* fix_multi_source_name (fprodents/patch/utils/__init__.py; the copy in   *)
(* fmriprep_rodents/patch/utils is the same code)                          *)
(***************************************************************************)

\* most paths in one in_files list
MaxInFiles == 2

\* a BIDS file: its directory and its entities
BidsFiles ==
    LET \* local
        Sessions == {"none", "test"}
        SubjectLabels == {"01", "045"}
        \* directories, subject labels and sessions of the files of a call
        Dirs == {<<>>, <<"/", "p">>, <<"/", "p", "/", "q">>}
    IN  [dir : Dirs, sub : SubjectLabels, ses : Sessions]

\* the path of a BIDS file: <dir>/sub-<sub>[_ses-<ses>]_T2w.nii.gz
BidsPath(f) ==
    os_path_join(f.dir,
                 <<"sub", "-", f.sub>>
                 \o (IF f.ses = "none" THEN <<>> ELSE <<"_", "ses", "-", f.ses>>)
                 \o <<"_", "T2w", ".nii.gz">>)

\* the calls: one path or a non-empty list of paths, the modality given or
\* left to its default
FmsInputs ==
    [is_list : {TRUE}, files : SeqsUpTo(BidsFiles, MaxInFiles),
     modality : {"default", "T1w"}]
    \cup [is_list : {FALSE}, files : SeqsUpTo(BidsFiles, 1),
          modality : {"default", "T1w"}]

\* nipype filename_to_list: a str becomes a one-element list
filename_to_list(inp) == [i \in DOMAIN inp.files |-> BidsPath(inp.files[i])]

\* (variant: named after the last path of the list)
FixMultiSourceNameLast(in_files, modality) ==
    LET parts == os_path_split(in_files[Len(in_files)])
        pieces == split(split1_head(parts[2], "_"), "-")
    IN  IF Len(pieces) < 2 THEN [exc |-> "IndexError", out |-> <<>>]
        ELSE [exc |-> "none",
              out |-> os_path_join(parts[1],
                                   <<"sub", "-">> \o pieces[2]
                                   \o <<"_", modality, ".nii.gz">>)]
\* Lines 12-14: split the first path, take the label between the first "-"
\* and the first "_" of the file name, and name the file
\* sub-<label>_<modality>.nii.gz in the same directory.
fix_multi_source_name(in_files, modality) ==
    LET parts == os_path_split(in_files[1])
        pieces == split(split1_head(parts[2], "_"), "-")
    IN  IF Len(pieces) < 2 THEN [exc |-> "IndexError", out |-> <<>>]
        ELSE [exc |-> "none",
              out |-> os_path_join(parts[1],
                                   <<"sub", "-">> \o pieces[2]
                                   \o <<"_", modality, ".nii.gz">>)]

FmsIdle ==
    [pc |-> "idle",
     inp |-> [is_list |-> FALSE,
              files |-> <<[dir |-> <<>>, sub |-> "01", ses |-> "none"]>>,
              modality |-> "default"],
     out |-> <<>>, exc |-> "none"]

FmsStart(inp) == [FmsIdle EXCEPT !.pc = "start", !.inp = inp]

\* one call of fix_multi_source_name(in_files[, modality])
FmsRun ==
    /\ prog = "fix_multi_source_name"
    /\ fms.pc = "start"
    /\ LET modality == IF fms.inp.modality = "default" THEN "T2w"
                       ELSE fms.inp.modality
           r == fix_multi_source_name(filename_to_list(fms.inp), modality)
       IN  fms' = [fms EXCEPT !.pc = IF r.exc = "none" THEN "returned"
                                     ELSE "raised",
                              !.out = r.out, !.exc = r.exc]
    /\ UNCHANGED <<prog, cc, grab, ants, func, refwf, subj, anat, tpl, f2b, wfn, ent, reg, bref, brun, xfm, fpw, pewf>>

(***************************************************************************)
(* get_template_specs (fprodents/patch/utils/__init__.py)                  *)
(***************************************************************************)

\* most files one template lookup finds
MaxFound == 2

\* A dict is a function from its keys to their values; None is "None".
dict_get(d, k, default) == IF k \in DOMAIN d THEN d[k] ELSE default
dict_set(d, k, v) == [x \in DOMAIN d \cup {k} |-> IF x = k THEN v ELSE d[x]]
dict_del(d, k) == [x \in DOMAIN d \ {k} |-> d[x]]

\* the values of the modifiers of a template spec
SpecValues == {"1", "2"}

\* The template_spec argument: any of the keys res, resolution and cohort.
\* The empty dict also stands for None (`template_spec or {}`).
TemplateSpecs == UNION {[K -> SpecValues] : K \in SUBSET {"res", "resolution", "cohort"}}

\* `default_resolution=None` in the signature
DefaultResolution == "None"

\* the calls: a template spec and default_resolution, given or omitted
TplInputs ==
    [template_spec : TemplateSpecs,
     default_resolution : {"omitted"} \cup SpecValues]

\* (variant: 'resolution' wins over 'res')
ResolutionFirst(template_spec, default_resolution) ==
    dict_get(template_spec, "resolution",
             dict_get(template_spec, "res", default_resolution))
\* `template_spec.pop("res", template_spec.get("resolution",
\* default_resolution))`
Resolution(template_spec, default_resolution) ==
    dict_get(template_spec, "res",
             dict_get(template_spec, "resolution", default_resolution))

\* Lines 41-46: the spec as it is passed to the lookup
MassageSpec(template_spec, default_resolution) ==
    LET d1 == dict_set(template_spec, "desc",
                       dict_get(template_spec, "desc", "None"))
        d2 == dict_set(d1, "atlas", dict_get(d1, "atlas", "None"))
    IN  dict_set(dict_del(d2, "res"), "resolution",
                 Resolution(d2, default_resolution))

\* Lines 48-50: the spec that is returned
CommonSpec(template_spec) ==
    LET c == [k \in {"resolution"} |-> template_spec["resolution"]]
    IN  IF "cohort" \in DOMAIN template_spec
        THEN dict_set(c, "cohort", template_spec["cohort"])
        ELSE c

\* templateflow.api.get(..., raise_empty=True) finding n files: no file
\* raises, one file is returned as a Path, several as a list
get_template(n) ==
    IF n = 0 THEN [exc |-> "Exception", value |-> "none"]
    ELSE IF n = 1 THEN [exc |-> "none", value |-> "Path"]
    ELSE [exc |-> "none", value |-> "list"]

TplIdle ==
    [pc |-> "idle",
     args |-> [template_spec |-> <<>>, default_resolution |-> "omitted"],
     found |-> 0, template_spec |-> <<>>, out_path |-> "none",
     out_spec |-> <<>>, exc |-> "none"]

TplStart(inp) == [TplIdle EXCEPT !.pc = "start", !.args = inp]

\* one call of get_template_specs, the lookup finding n files
TplRun ==
    /\ prog = "get_template_specs"
    /\ tpl.pc = "start"
    /\ \E n \in 0..MaxFound :
        LET default_resolution ==
                IF tpl.args.default_resolution = "omitted"
                THEN DefaultResolution
                ELSE tpl.args.default_resolution
            template_spec == MassageSpec(tpl.args.template_spec,
                                         default_resolution)
            common_spec == CommonSpec(template_spec)
            tpl_target_path == get_template(n)
            t == [tpl EXCEPT !.found = n, !.template_spec = template_spec]
        IN  tpl' = IF tpl_target_path.exc # "none"
                   THEN [t EXCEPT !.pc = "raised",
                                  !.exc = tpl_target_path.exc]
                   ELSE IF tpl_target_path.value = "list"
                   THEN [t EXCEPT !.pc = "raised", !.exc = "RuntimeError"]
                   ELSE [t EXCEPT !.pc = "returned",
                                  !.out_path = "str(Path)",
                                  !.out_spec = common_spec]
    /\ UNCHANGED <<prog, cc, grab, ants, func, refwf, subj, anat, fms, f2b, wfn, ent, reg, bref, brun, xfm, fpw, pewf>>

(***************************************************************************)
(* _probseg_fast2bids (fmriprep_rodents/patch/workflows/anatomical.py)     *)
(***************************************************************************)

\* the lists of three maps
ProbsegInputs ==
    LET \* local
        \* the tissue maps FAST writes
        TissueMaps == {"csf", "wm", "gm"}
    IN  [1..3 -> TissueMaps]

\* (variant: the first two maps move up and the first goes last)
ProbsegRotate(inlist) == <<inlist[2], inlist[3], inlist[1]>>
\* `return (inlist[2], inlist[1], inlist[0])`, Python counting from 0
probseg_fast2bids(inlist) == <<inlist[3], inlist[2], inlist[1]>>

F2bIdle ==
    [pc |-> "idle", inlist |-> <<"csf", "wm", "gm">>, calls |-> 0,
     first |-> <<>>, out |-> <<>>]

F2bStart(inlist) == [F2bIdle EXCEPT !.pc = "start", !.inlist = inlist]

\* one call of _probseg_fast2bids, on the input and then on its own result
F2bApply ==
    /\ prog = "probseg_fast2bids"
    /\ f2b.pc \in {"start", "once"}
    /\ f2b' = IF f2b.pc = "start"
              THEN [f2b EXCEPT !.pc = "once", !.calls = 1,
                               !.first = probseg_fast2bids(f2b.inlist),
                               !.out = probseg_fast2bids(f2b.inlist)]
              ELSE [f2b EXCEPT !.pc = "twice", !.calls = 2,
                               !.out = probseg_fast2bids(f2b.out)]
    /\ UNCHANGED <<prog, cc, grab, ants, func, refwf, subj, anat, fms, tpl, wfn, ent, reg, bref, brun, xfm, fpw, pewf>>

(***************************************************************************)
(* _get_wf_name (fprodents/workflows/bold/base.py).  Here a string is the  *)
(* sequence of its characters.                                             *)
(***************************************************************************)

\* most entities between the subject and the suffix of a file name
MaxEntities == 2

RECURSIVE join(_, _)
\* sep.join(pieces)
join(sep, pieces) ==
    IF pieces = <<>> THEN <<>>
    ELSE IF Len(pieces) = 1 THEN pieces[1]
    ELSE pieces[1] \o sep \o join(sep, Tail(pieces))

\* the calls: sub-01[_<entity>...]_bold<ext> in a directory
WfNameInputs ==
    LET \* local
        \* the directories of the file names
        WfDirs == {<<>>, <<"/", "p", "/">>}
        \* the extensions of the file names
        Extensions == {<<".", "n", "i", "i", ".", "g", "z">>, <<".", "n", "i", "i">>}
        \* the entities of the file names, as they are written
        EntityChunks ==
            {<<"t", "a", "s", "k", "-", "n", "b", "a", "c", "k">>,
             <<"r", "u", "n", "-", "0", "1">>,
             <<"e", "c", "h", "o", "-", "1">>,
             <<"a", "c", "q", "-", "a", " ", "b">>,
             <<"a", "c", "q", "-", "a", ".", "b">>,
             <<"t", "a", "s", "k", "-", "b", "o", "l", "d">>}
    IN  [dir : WfDirs,
         entities : {<<>>} \cup SeqsUpTo(EntityChunks, MaxEntities),
         ext : Extensions]

\* the path of a call
BoldFname(inp) ==
    inp.dir \o join(<<"_">>, <<<<"s", "u", "b", "-", "0", "1">>>> \o inp.entities
                              \o <<<<"b", "o", "l", "d">>>>)
    \o inp.ext

\* s ends with suffix and is longer than it
EndsWith(s, suffix) ==
    /\ Len(s) > Len(suffix)
    /\ SubSeq(s, Len(s) - Len(suffix) + 1, Len(s)) = suffix

RECURSIVE replace(_, _, _)
\* str.replace(old, new): every occurrence, from the left, not overlapping
replace(s, old, new) ==
    IF Len(s) < Len(old) THEN s
    ELSE IF SubSeq(s, 1, Len(old)) = old
         THEN new \o replace(SubSeq(s, Len(old) + 1, Len(s)), old, new)
         ELSE <<s[1]>> \o replace(Tail(s), old, new)

\* nipype split_filename(fname)[1]: the base name without its extension,
\* where .nii.gz, .tar.gz and .niml.dset count as one extension
split_filename(fname) ==
    LET base == SubSeq(fname, LastIndex(fname, "/") + 1, Len(fname))
        special == {<<".", "n", "i", "i", ".", "g", "z">>,
                    <<".", "t", "a", "r", ".", "g", "z">>,
                    <<".", "n", "i", "m", "l", ".", "d", "s", "e", "t">>}
        dot == LastIndex(base, ".")
    IN  IF \E e \in special : EndsWith(base, e)
        THEN LET e == CHOOSE x \in special : EndsWith(base, x)
             IN  SubSeq(base, 1, Len(base) - Len(e))
        ELSE IF dot > 1 THEN SubSeq(base, 1, dot - 1)
        ELSE base

\* (variant: the dots of the stem are kept)
GetWfNameKeepDots(bold_fname) ==
    LET fname == split_filename(bold_fname)
        fname_nosub == join(<<"_">>, Tail(split(fname, "_")))
    IN  <<"f", "u", "n", "c", "_", "p", "r", "e", "p", "r", "o", "c", "_">>
        \o replace(replace(replace(fname_nosub, <<" ">>, <<>>),
                           <<"-">>, <<"_">>),
                   <<"_", "b", "o", "l", "d">>, <<"_", "w", "f">>)
\* Lines 826-834: drop the first "_"-separated piece of the stem, replace
\* "." by "_", delete spaces, replace "-" by "_", then "_bold" by "_wf".
get_wf_name(bold_fname) ==
    LET fname == split_filename(bold_fname)
        fname_nosub == join(<<"_">>, Tail(split(fname, "_")))
    IN  <<"f", "u", "n", "c", "_", "p", "r", "e", "p", "r", "o", "c", "_">>
        \o replace(replace(replace(replace(fname_nosub, <<".">>, <<"_">>),
                                   <<" ">>, <<>>),
                           <<"-">>, <<"_">>),
                   <<"_", "b", "o", "l", "d">>, <<"_", "w", "f">>)

WfnIdle ==
    [pc |-> "idle",
     inp |-> [dir |-> <<>>, entities |-> <<>>, ext |-> <<".", "n", "i", "i">>],
     out |-> <<>>]

WfnStart(inp) == [WfnIdle EXCEPT !.pc = "start", !.inp = inp]

\* one call of _get_wf_name
WfnRun ==
    /\ prog = "get_wf_name"
    /\ wfn.pc = "start"
    /\ wfn' = [wfn EXCEPT !.pc = "returned",
                          !.out = get_wf_name(BoldFname(wfn.inp))]
    /\ UNCHANGED <<prog, cc, grab, ants, func, refwf, subj, anat, fms, tpl, f2b, ent, reg, bref, brun, xfm, fpw, pewf>>

(***************************************************************************)
(* extract_entities (fprodents/patch/utils/__init__.py)                    *)
(***************************************************************************)

\* most files in one file_list
MaxFileList == 3

\* A file is the dict parse_file_entities gives for it: always a subject,
\* possibly a run.
ParsedFiles ==
    UNION {[{"subject"} \cup K -> 1..2] : K \in SUBSET {"run"}}

\* the calls: one path (scalar) or a list of paths
EntInputs ==
    {[scalar |-> TRUE, vals |-> <<f>>] : f \in ParsedFiles}
    \cup {[scalar |-> FALSE, vals |-> fs] :
             fs \in SeqsUpTo(ParsedFiles, MaxFileList)}

RECURSIVE Collect(_, _)
\* Lines 86-92: entities[e], the values of entity e appended file by file
Collect(files, e) ==
    IF files = <<>> THEN <<>>
    ELSE (IF e \in DOMAIN Head(files) THEN <<Head(files)[e]>> ELSE <<>>)
         \o Collect(Tail(files), e)

\* (variant: a single value is left in its list)
UniqueNoCollapse(inlist) ==
    [scalar |-> FALSE,
     vals |-> SortedInts({inlist[i] : i \in DOMAIN inlist})]
\* `_unique`: sorted(set(inlist)), a single element returned bare
unique(inlist) ==
    LET s == SortedInts({inlist[i] : i \in DOMAIN inlist})
    IN  IF Len(s) = 1 THEN [scalar |-> TRUE, vals |-> s]
        ELSE [scalar |-> FALSE, vals |-> s]

\* `{k: _unique(v) for k, v in entities.items()}`
extract_entities(file_list) ==
    LET files == listify(file_list)
        keys == UNION {DOMAIN files[i] : i \in DOMAIN files}
    IN  [k \in keys |-> unique(Collect(files, k))]

EntIdle ==
    [pc |-> "idle",
     file_list |-> [scalar |-> TRUE, vals |-> <<[k \in {"subject"} |-> 1]>>],
     out |-> <<>>]

EntStart(fl) == [EntIdle EXCEPT !.pc = "start", !.file_list = fl]

\* one call of extract_entities
EntRun ==
    /\ prog = "extract_entities"
    /\ ent.pc = "start"
    /\ ent' = [ent EXCEPT !.pc = "returned",
                          !.out = extract_entities(ent.file_list)]
    /\ UNCHANGED <<prog, cc, grab, ants, func, refwf, subj, anat, fms, tpl, f2b, wfn, reg, bref, brun, xfm, fpw, pewf>>

(***************************************************************************)
(* init_bold_reg_wf (fprodents/workflows/bold/registration.py)             *)
(***************************************************************************)

\* the calls
RegInputs ==
    LET \* local
        \* bold2t1w_init: the two documented values and one that is neither
        Bold2T1wInits == {"register", "header", "other"}
    IN  [bold2t1w_init : Bold2T1wInits, write_report : BOOLEAN]

RegIdle ==
    [pc |-> "idle",
     args |-> [bold2t1w_init |-> "register", write_report |-> FALSE],
     declared |-> {}, connections |-> {}, exc |-> "none"]

RegStart(inp) == [RegIdle EXCEPT !.pc = "start", !.args = inp]

\* Lines 85-122: declare inputnode, outputnode and coreg, then raise
\* ValueError for an unknown initialization and NotImplementedError for
\* "header".
RegCheckInit ==
    /\ prog = "bold_reg"
    /\ reg.pc = "start"
    /\ LET r == [reg EXCEPT !.declared =
                    Fields("inputnode", {"ref_bold_brain", "t1w_brain"})
                    \cup Fields("outputnode",
                                {"bold2anat", "anat2bold", "out_report"})]
       IN  reg' = IF reg.args.bold2t1w_init \notin {"register", "header"}
                  THEN [r EXCEPT !.pc = "raised", !.exc = "ValueError"]
                  ELSE IF reg.args.bold2t1w_init = "header"
                  THEN [r EXCEPT !.pc = "raised",
                                 !.exc = "NotImplementedError"]
                  ELSE [r EXCEPT !.pc = "connect"]
    /\ UNCHANGED <<prog, cc, grab, ants, func, refwf, subj, anat, fms, tpl, f2b, wfn, ent, bref, brun, xfm, fpw, pewf>>

\* Lines 124-173: wire the registration, the reportlet sink when
\* write_report is set, and return the workflow.
RegConnect ==
    LET \* local
        \* Lines 168-170.
        RegReportConnections ==
            {<<"outputnode", "out_report", "ds_report_reg", "in_file">>}
        \* Lines 142-155.
        RegConnections ==
            {<<"inputnode", "ref_bold_brain", "coreg", "in_file">>,
             <<"inputnode", "t1w_brain", "coreg", "reference">>,
             <<"coreg", "out_matrix_file", "invt_xfm", "in_file">>,
             <<"coreg", "out_matrix_file", "fsl2itk_fwd", "transform_file">>,
             <<"coreg", "out_report", "outputnode", "out_report">>,
             <<"inputnode", "t1w_brain", "fsl2itk_fwd", "reference_file">>,
             <<"inputnode", "ref_bold_brain", "fsl2itk_fwd", "source_file">>,
             <<"inputnode", "ref_bold_brain", "fsl2itk_inv", "reference_file">>,
             <<"inputnode", "t1w_brain", "fsl2itk_inv", "source_file">>,
             <<"invt_xfm", "out_file", "fsl2itk_inv", "transform_file">>,
             <<"fsl2itk_fwd", "itk_transform", "outputnode", "bold2anat">>,
             <<"fsl2itk_inv", "itk_transform", "outputnode", "anat2bold">>}
    IN  /\ prog = "bold_reg"
        /\ reg.pc = "connect"
        /\ LET r1 == connect(reg, RegConnections)
               r2 == IF reg.args.write_report
                     THEN connect(r1, RegReportConnections)
                     ELSE r1
           IN  reg' = IF r2.pc = "raised" THEN r2 ELSE [r2 EXCEPT !.pc = "returned"]
        /\ UNCHANGED <<prog, cc, grab, ants, func, refwf, subj, anat, fms, tpl, f2b, wfn, ent, bref, brun, xfm, fpw, pewf>>

(***************************************************************************)
(* init_bold_reference_wf (fprodents/patch/workflows/func.py)              *)
(***************************************************************************)

\* the calls
BrefInputs ==
    LET \* local
        \* sbref_files: None (the default), an empty list, True, a list of files
        SbrefFiles == {"None", "[]", "True", "[sbref]"}
    IN  [pre_mask : BOOLEAN, sbref_files : SbrefFiles, gen_report : BOOLEAN]

\* Lines 246-251.
MaskReportletConnections ==
    {<<"outputnode", "ref_image", "mask_reportlet", "background_file">>,
     <<"outputnode", "bold_mask", "mask_reportlet", "mask_file">>}

BrefIdle ==
    [pc |-> "idle",
     args |-> [pre_mask |-> FALSE, sbref_files |-> "None",
               gen_report |-> FALSE],
     declared |-> {}, connections |-> {}, exc |-> "none"]

BrefStart(inp) == [BrefIdle EXCEPT !.pc = "start", !.args = inp]

\* Lines 104-201: declare inputnode and outputnode, wire validation and
\* dummy-scan detection, then the brain extraction or, with pre_mask, the
\* masking by the given mask.
BrefReference ==
    LET \* local
        \* Lines 194-200.
        BrefPreMaskConnections ==
            {<<"inputnode", "bold_mask", "mask_brain", "in_mask">>,
             <<"inputnode", "bold_mask", "outputnode", "bold_mask">>,
             <<"gen_avg", "out_file", "outputnode", "ref_image">>,
             <<"gen_avg", "out_file", "mask_brain", "in_file">>,
             <<"mask_brain", "out_file", "outputnode", "ref_image_brain">>}
        \* Lines 178-187.
        BrefExtractionConnections ==
            {<<"gen_avg", "out_file", "brain_extraction_wf", "inputnode.in_files">>,
             <<"brain_extraction_wf", "outputnode.out_corrected", "outputnode", "ref_image">>,
             <<"brain_extraction_wf", "outputnode.out_mask", "outputnode", "bold_mask">>,
             <<"brain_extraction_wf", "outputnode.out_brain", "outputnode", "ref_image_brain">>}
        \* Lines 155-167.
        BrefBaseConnections ==
            {<<"inputnode", "bold_file", "val_bold", "in_file">>,
             <<"inputnode", "bold_file", "get_dummy", "in_file">>,
             <<"inputnode", "dummy_scans", "calc_dummy_scans", "dummy_scans">>,
             <<"val_bold", "out_file", "bold_1st", "inlist">>,
             <<"get_dummy", "n_dummy", "calc_dummy_scans", "algo_dummy_scans">>,
             <<"calc_dummy_scans", "skip_vols_num", "outputnode", "skip_vols">>,
             <<"gen_avg", "out_file", "outputnode", "raw_ref_image">>,
             <<"val_bold", "out_report", "validate_1st", "inlist">>,
             <<"bold_1st", "out", "outputnode", "bold_file">>,
             <<"validate_1st", "out", "outputnode", "validation_report">>,
             <<"get_dummy", "n_dummy", "outputnode", "algo_dummy_scans">>}
    IN  /\ prog = "bold_reference"
        /\ bref.pc = "start"
        /\ LET b == [bref EXCEPT !.declared =
                        Fields("inputnode", {"bold_file", "bold_mask",
                                             "dummy_scans", "sbref_file"})
                        \cup Fields("outputnode",
                                    {"bold_file", "raw_ref_image", "skip_vols",
                                     "algo_dummy_scans", "ref_image",
                                     "ref_image_brain", "bold_mask",
                                     "validation_report", "mask_report"})]
               b1 == connect(b, BrefBaseConnections)
               b2 == IF ~bref.args.pre_mask
                     THEN connect(b1, BrefExtractionConnections)
                     ELSE connect(b1, BrefPreMaskConnections)
           IN  bref' = IF b2.pc = "raised" THEN b2 ELSE [b2 EXCEPT !.pc = "sbref"]
        /\ UNCHANGED <<prog, cc, grab, ants, func, refwf, subj, anat, fms, tpl, f2b, wfn, ent, reg, brun, xfm, fpw, pewf>>

\* Lines 203-254: without SBRefs average the BOLD series and return; with
\* SBRefs average those, append the mask reportlet when gen_report is set,
\* and return.
BrefFinish ==
    LET \* local
        \* `not sbref_files`
        NoSbref(sbref_files) == sbref_files \in {"None", "[]"}
        \* Lines 229-233.
        BrefSbrefConnections ==
            {<<"inputnode", "sbref_file", "val_sbref", "in_file">>,
             <<"val_sbref", "out_file", "merge_sbrefs", "in_files">>,
             <<"merge_sbrefs", "out_file", "gen_avg", "in_file">>}
        \* Lines 205-208.
        BrefNoSbrefConnections ==
            {<<"val_bold", "out_file", "gen_avg", "in_file">>,
             <<"get_dummy", "t_mask", "gen_avg", "t_mask">>}
    IN  /\ prog = "bold_reference"
        /\ bref.pc = "sbref"
        /\ LET b == IF NoSbref(bref.args.sbref_files)
                    THEN connect(bref, BrefNoSbrefConnections)
                    ELSE LET s == connect(bref, BrefSbrefConnections)
                         IN  IF bref.args.gen_report
                             THEN connect(s, MaskReportletConnections)
                             ELSE s
           IN  bref' = IF b.pc = "raised" THEN b ELSE [b EXCEPT !.pc = "returned"]
        /\ UNCHANGED <<prog, cc, grab, ants, func, refwf, subj, anat, fms, tpl, f2b, wfn, ent, reg, brun, xfm, fpw, pewf>>

(***************************************************************************)
(* Build-then-run of the single-subject workflow: the BOLD check of        *)
(* init_single_subject_wf (fprodents/workflows/base.py, lines 114-129) at  *)
(* build time, then the run of its source node bidssrc, a BIDSDataGrabber  *)
(* constructed with anat_only (lines 175-180).                             *)
(***************************************************************************)

\* the sessions: what collect_data found, and config.workflow.anat_only
BuildRunInputs == [subject_data : SubjectData, anat_only : BOOLEAN]

\* (variant: the build does not look at the BOLD list)
BuildErrorNever(subject_data, anat_only) == "none"
\* `if not anat_only and not subject_data["bold"]: raise RuntimeError`
BuildError(subject_data, anat_only) ==
    IF ~anat_only /\ IsEmpty(subject_data["bold"]) THEN "RuntimeError"
    ELSE "none"

\* niworkflows BIDSDataGrabber.__init__: `self._require_funcs = not anat_only`
RequireFuncs(anat_only) == ~anat_only

BuildRunIdle ==
    [pc |-> "idle",
     args |-> [subject_data |-> [t \in ImTypes |-> 0], anat_only |-> FALSE],
     exc |-> "none", raised_by |-> "none", bidssrc_ran |-> FALSE]

BuildRunStart(inp) == [BuildRunIdle EXCEPT !.pc = "start", !.args = inp]

\* Lines 114-129 (and the rest of the build, which adds no check on the
\* image lists): raise RuntimeError without BOLD images unless anat_only.
BuildSingleSubject ==
    /\ prog = "build_run"
    /\ brun.pc = "start"
    /\ LET e == BuildError(brun.args.subject_data, brun.args.anat_only)
       IN  brun' = IF e # "none"
                   THEN [brun EXCEPT !.pc = "raised", !.exc = e,
                                     !.raised_by = "init_single_subject_wf"]
                   ELSE [brun EXCEPT !.pc = "built"]
    /\ UNCHANGED <<prog, cc, grab, ants, func, refwf, subj, anat, fms, tpl, f2b, wfn, ent, reg, bref, xfm, fpw, pewf>>

\* The run of the built workflow starts with bidssrc, which depends on no
\* other node: BIDSDataGrabber._run_interface on the same subject_data.
RunBidssrc ==
    /\ prog = "build_run"
    /\ brun.pc = "built"
    /\ LET e == GrabberError(brun.args.subject_data,
                             RequireFuncs(brun.args.anat_only))
       IN  brun' = IF e # "none"
                   THEN [brun EXCEPT !.pc = "raised", !.bidssrc_ran = TRUE,
                                     !.exc = "FileNotFoundError",
                                     !.raised_by = "bidssrc"]
                   ELSE [brun EXCEPT !.pc = "running", !.bidssrc_ran = TRUE]
    /\ UNCHANGED <<prog, cc, grab, ants, func, refwf, subj, anat, fms, tpl, f2b, wfn, ent, reg, bref, xfm, fpw, pewf>>

(***************************************************************************)
(* init_bold_t1_trans_wf and init_bold_std_trans_wf                        *)
(* (src/fprodents/workflows/bold/registration.py, resampling.py): the      *)
(* connections of the two one-shot resampling workflows, and in particular *)
(* the slots of their merge_xforms node.                                   *)
(***************************************************************************)

\* `int(use_fieldwarp)`
int(b) == IF b THEN 1 ELSE 0

\* `'in%d' % n`: the name of slot n of a Merge node
Slot(n) ==
    CASE n = 1 -> "in1" [] n = 2 -> "in2" [] n = 3 -> "in3" [] n = 4 -> "in4"
      [] OTHER -> "in?"

\* (variant: the Merge node always has two slots)
T1NformsTwo(use_fieldwarp) == 2
\* `nforms = 2 + int(use_fieldwarp)`
T1Nforms(use_fieldwarp) == 2 + int(use_fieldwarp)

\* `nxforms = 3 + use_fieldwarp`
StdNxforms(use_fieldwarp) == 3 + int(use_fieldwarp)

\* init_bold_t1_trans_wf: the connections the workflow is built with.
BoldT1TransConnections(multiecho, use_fieldwarp) ==
    {<<"inputnode", "ref_bold_brain", "gen_ref", "moving_image">>,
     <<"inputnode", "t1w_brain", "gen_ref", "fixed_image">>,
     <<"inputnode", "t1w_mask", "gen_ref", "fov_mask">>,
     <<"inputnode", "ref_bold_brain", "bold_ref_t1w_tfm", "input_image">>,
     <<"gen_ref", "out_file", "bold_ref_t1w_tfm", "reference_image">>,
     <<"inputnode", "bold2anat", "bold_ref_t1w_tfm", "transforms">>,
     <<"bold_ref_t1w_tfm", "output_image", "outputnode", "bold_t1_ref">>}
    \cup (IF ~multiecho
          THEN (IF use_fieldwarp
                THEN {<<"inputnode", "fieldwarp", "merge_xforms", "in2">>}
                ELSE {})
               \cup
               {<<"inputnode", "hmc_xforms", "merge_xforms",
                  Slot(T1Nforms(use_fieldwarp))>>,
                <<"inputnode", "bold2anat", "merge_xforms", "in1">>,
                <<"merge_xforms", "out", "bold_to_t1w_transform", "transforms">>,
                <<"inputnode", "bold_split", "bold_to_t1w_transform",
                  "input_image">>}
          ELSE {<<"inputnode", "bold_split", "bold_split", "in_file">>,
                <<"bold_split", "out_files", "bold_to_t1w_transform",
                  "input_image">>,
                <<"inputnode", "bold2anat", "bold_to_t1w_transform",
                  "transforms">>})
    \cup
    {<<"inputnode", "name_source", "merge", "header_source">>,
     <<"gen_ref", "out_file", "bold_to_t1w_transform", "reference_image">>,
     <<"bold_to_t1w_transform", "out_files", "merge", "in_files">>,
     <<"merge", "out_file", "outputnode", "bold_t1">>}

\* init_bold_std_trans_wf: the connections the workflow is built with.
BoldStdTransConnections(use_fieldwarp) ==
    {<<"inputnode", "hmc_xforms", "merge_xforms",
       Slot(StdNxforms(use_fieldwarp))>>}
    \cup (IF use_fieldwarp
          THEN {<<"inputnode", "fieldwarp", "merge_xforms", "in3">>} ELSE {})
    \cup
    {<<"iterablesource", "std_target", "split_target", "in_target">>,
     <<"iterablesource", "std_target", "select_tpl", "template">>,
     <<"inputnode", "anat2std_xfm", "select_std", "anat2std_xfm">>,
     <<"inputnode", "templates", "select_std", "keys">>,
     <<"inputnode", "bold_mask", "mask_std_tfm", "input_image">>,
     <<"inputnode", "bold_mask", "ref_std_tfm", "input_image">>,
     <<"inputnode", "bold_split", "gen_ref", "moving_image">>,
     <<"inputnode", "bold2anat", "merge_xforms", "in2">>,
     <<"inputnode", "name_source", "merge", "header_source">>,
     <<"inputnode", "bold2anat", "mask_merge_tfms", "in2">>,
     <<"inputnode", "bold_split", "bold_to_std_transform", "input_image">>,
     <<"split_target", "space", "select_std", "key">>,
     <<"select_std", "anat2std_xfm", "merge_xforms", "in1">>,
     <<"select_std", "anat2std_xfm", "mask_merge_tfms", "in1">>,
     <<"split_target", "spec", "gen_ref", "keep_native">>,
     <<"select_tpl", "out", "gen_ref", "fixed_image">>,
     <<"merge_xforms", "out", "bold_to_std_transform", "transforms">>,
     <<"gen_ref", "out_file", "bold_to_std_transform", "reference_image">>,
     <<"gen_ref", "out_file", "mask_std_tfm", "reference_image">>,
     <<"mask_merge_tfms", "out", "mask_std_tfm", "transforms">>,
     <<"gen_ref", "out_file", "ref_std_tfm", "reference_image">>,
     <<"mask_merge_tfms", "out", "ref_std_tfm", "transforms">>,
     <<"bold_to_std_transform", "out_files", "merge", "in_files">>,
     <<"iterablesource", "std_target", "poutputnode", "spatial_reference">>,
     <<"merge", "out_file", "poutputnode", "bold_std">>,
     <<"ref_std_tfm", "output_image", "poutputnode", "bold_std_ref">>,
     <<"mask_std_tfm", "output_image", "poutputnode", "bold_mask_std">>,
     <<"select_std", "key", "poutputnode", "template">>,
     <<"poutputnode", "bold_mask_std", "outputnode", "bold_mask_std">>,
     <<"poutputnode", "bold_std", "outputnode", "bold_std">>,
     <<"poutputnode", "bold_std_ref", "outputnode", "bold_std_ref">>,
     <<"poutputnode", "spatial_reference", "outputnode", "spatial_reference">>,
     <<"poutputnode", "template", "outputnode", "template">>}

\* The sources connected to a port of a node.
SourcesOf(conns, node, port) ==
    {<<c[1], c[2]>> : c \in {d \in conns : d[3] = node /\ d[4] = port}}

\* The transforms a Merge node with n slots hands on, in slot order: the
\* source port of each slot, "empty" for a slot nothing is connected to.
MergedList(conns, node, n) ==
    [k \in 1..n |->
        IF SourcesOf(conns, node, Slot(k)) = {} THEN "empty"
        ELSE (CHOOSE s \in SourcesOf(conns, node, Slot(k)) : TRUE)[2]]

XfmInputs == [multiecho : BOOLEAN, use_fieldwarp : BOOLEAN]

XfmIdle ==
    [pc |-> "idle", args |-> [multiecho |-> FALSE, use_fieldwarp |-> FALSE],
     t1 |-> {}, std |-> {}]

XfmStart(inp) == [XfmIdle EXCEPT !.pc = "start", !.args = inp]

\* A call of init_bold_t1_trans_wf(multiecho=..., use_fieldwarp=...).
XfmT1Trans ==
    /\ prog = "bold_trans"
    /\ xfm.pc = "start"
    /\ xfm' = [xfm EXCEPT !.pc = "t1",
                  !.t1 = BoldT1TransConnections(xfm.args.multiecho,
                                                xfm.args.use_fieldwarp)]
    /\ UNCHANGED <<prog, cc, grab, ants, func, refwf, subj, anat, fms, tpl, f2b, wfn, ent, reg, bref, brun, fpw, pewf>>

\* A call of init_bold_std_trans_wf(use_fieldwarp=...).
XfmStdTrans ==
    /\ prog = "bold_trans"
    /\ xfm.pc = "t1"
    /\ xfm' = [xfm EXCEPT !.pc = "done",
                  !.std = BoldStdTransConnections(xfm.args.use_fieldwarp)]
    /\ UNCHANGED <<prog, cc, grab, ants, func, refwf, subj, anat, fms, tpl, f2b, wfn, ent, reg, bref, brun, fpw, pewf>>

(***************************************************************************)
(* init_func_preproc_wf (src/fprodents/workflows/bold/base.py), the build  *)
(* of the workflow after the echo gate: nodes created, connections made,   *)
(* inputs assigned, iterables and JoinNodes, block by block.               *)
(***************************************************************************)

\* slice-timing correction runs, the run is multi-echo, a fieldmap is
\* available; the output spaces hold a standard space, T1w/anat, a native
\* space.
FpwInputs ==
    [run_stc : BOOLEAN, multiecho : BOOLEAN, has_fieldmap : BOOLEAN,
     std_spaces : BOOLEAN, anat_space : BOOLEAN, native_space : BOOLEAN]

\* (variant: slice-timing correction takes nothing from inputnode)
FpwStcNoInputnode ==
    {<<"bold_stc_wf", "outputnode.stc_file", "boldbuffer", "bold_file">>}
\* Lines 354-357.
FpwStcConnections ==
    {<<"inputnode", "n_dummy_scans", "bold_stc_wf", "inputnode.skip_vols">>,
     <<"bold_stc_wf", "outputnode.stc_file", "boldbuffer", "bold_file">>}

\* The nodes a set of connections involves.
NodesOf(conns) == {c[1] : c \in conns} \cup {c[3] : c \in conns}

\* One `workflow.connect([...])` call of the builder: as connect, and
\* Exception too when a destination port is already connected.
WorkflowConnect(w, conns) ==
    IF w.pc = "raised" THEN w
    ELSE IF AlreadyConnected(w.connections, conns) # {}
         THEN [w EXCEPT !.connections = @ \cup conns,
                        !.pc = "raised", !.exc = "Exception"]
         ELSE connect(w, conns)

\* A name that is read before any assignment to it in the function:
\* UnboundLocalError, raised while the argument list is built.
Unbound(w, names) ==
    IF w.pc = "raised" \/ names \subseteq w.created THEN w
    ELSE [w EXCEPT !.pc = "raised", !.exc = "UnboundLocalError"]

\* `node.inputs.<field> = value` for each <<node, field>> of `ops`: the
\* assignments that hit a node some connect call already involved are
\* recorded.
Assign(w, ops) ==
    IF w.pc = "raised" THEN w
    ELSE [w EXCEPT !.late =
             @ \cup {op \in ops : op[1] \in NodesOf(w.connections)}]

\* `pe.Node(...)`, `init_..._wf(...)`, `clone(...)`: nodes come to exist.
Create(w, nodes) ==
    IF w.pc = "raised" THEN w ELSE [w EXCEPT !.created = @ \cup nodes]

\* `pe.JoinNode(..., joinsource=source, name=node)`
CreateJoin(w, node, source) ==
    IF w.pc = "raised" THEN w
    ELSE [w EXCEPT !.created = @ \cup {node},
                   !.joins = @ \cup {<<node, source>>}]

\* `node.iterables = (...)`
SetIterables(w, node) ==
    IF w.pc = "raised" THEN w ELSE [w EXCEPT !.iterables = @ \cup {node}]

\* Move on to the next block unless an exception was raised.
Goto(w, pc) == IF w.pc = "raised" THEN w ELSE [w EXCEPT !.pc = pc]

FpwIdle ==
    [pc |-> "idle",
     args |-> [run_stc |-> FALSE, multiecho |-> FALSE, has_fieldmap |-> FALSE,
               std_spaces |-> FALSE, anat_space |-> FALSE,
               native_space |-> FALSE],
     declared |-> {}, created |-> {}, connections |-> {}, late |-> {},
     iterables |-> {}, joins |-> {}, t1_trans |-> {}, std_trans |-> {},
     exc |-> "none"]

FpwStart(inp) == [FpwIdle EXCEPT !.pc = "start", !.args = inp]

\* Lines 206-348: the identity nodes, the summary, the derivatives
\* workflow and its connections, the splitter and the HMC, registration,
\* T1w resampling and confounds workflows.
FpwDeclare ==
    LET \* local
        \* Lines 290-301.
        FpwDerivativesConnections ==
            {<<"outputnode", "bold_t1", "func_derivatives_wf", "inputnode.bold_t1">>,
             <<"outputnode", "bold_t1_ref", "func_derivatives_wf", "inputnode.bold_t1_ref">>,
             <<"outputnode", "bold_mask_t1", "func_derivatives_wf", "inputnode.bold_mask_t1">>,
             <<"outputnode", "bold_native", "func_derivatives_wf", "inputnode.bold_native">>,
             <<"outputnode", "confounds", "func_derivatives_wf", "inputnode.confounds">>,
             <<"outputnode", "melodic_mix", "func_derivatives_wf", "inputnode.melodic_mix">>,
             <<"outputnode", "nonaggr_denoised_file", "func_derivatives_wf",
               "inputnode.nonaggr_denoised_file">>,
             <<"outputnode", "confounds_metadata", "func_derivatives_wf",
               "inputnode.confounds_metadata">>}
        \* The nodes and sub-workflows lines 206-348 create.
        FpwFirstNodes ==
            {"inputnode", "outputnode", "t1w_brain", "boldbuffer", "summary",
             "func_derivatives_wf", "bold_split", "bold_hmc_wf", "bold_reg_wf",
             "bold_t1_trans_wf", "t1w_mask_bold_tfm", "bold_confounds_wf"}
        \* Lines 237-255.
        FpwOutputnodeFields ==
            {"bold_mask", "bold_t1", "bold_t1_ref", "bold_mask_t1", "bold_std",
             "bold_std_ref", "bold_mask_std", "bold_native", "confounds",
             "melodic_mix", "nonaggr_denoised_file", "confounds_metadata"}
        \* Lines 206-234.
        FpwInputnodeFields ==
            {"bold_file", "ref_file", "bold_ref_xfm", "n_dummy_scans",
             "validation_report", "subjects_dir", "subject_id", "anat_preproc",
             "anat_mask", "anat_dseg", "anat_tpms", "anat2std_xfm", "std2anat_xfm",
             "template", "anat2fsnative_xfm", "fsnative2anat_xfm", "fmap",
             "fmap_ref", "fmap_coeff", "fmap_mask", "fmap_id", "sdc_method"}
    IN  /\ prog = "func_preproc"
        /\ fpw.pc = "start"
        /\ LET w0 == [fpw EXCEPT
                        !.declared = Fields("inputnode", FpwInputnodeFields)
                                     \cup Fields("outputnode", FpwOutputnodeFields)]
               w1 == Assign(Create(w0, {"inputnode"}),
                            {<<"inputnode", "bold_file">>})
               w2 == Assign(Create(w1, {"outputnode", "t1w_brain", "boldbuffer",
                                        "summary"}),
                            {<<"summary", "dummy_scans">>})
               w3 == WorkflowConnect(Create(w2, {"func_derivatives_wf"}),
                                     FpwDerivativesConnections)
               w4 == Create(w3, FpwFirstNodes)
               w5 == [w4 EXCEPT !.t1_trans =
                         BoldT1TransConnections(fpw.args.multiecho, FALSE)]
           IN  fpw' = Goto(w5, "stc")
        /\ UNCHANGED <<prog, cc, grab, ants, func, refwf, subj, anat, fms, tpl, f2b, wfn, ent, reg, bref, brun, xfm, pewf>>

\* Lines 351-382: slice-timing correction or its bypass, and the node the
\* echoes iterate over.
FpwStc ==
    /\ prog = "func_preproc"
    /\ fpw.pc = "stc"
    /\ LET a == fpw.args
           w1 == IF a.run_stc
                 THEN LET s1 == WorkflowConnect(Create(fpw, {"bold_stc_wf"}),
                                                FpwStcConnections)
                      IN  IF ~a.multiecho
                          THEN WorkflowConnect(s1,
                                 {<<"inputnode", "bold_file", "bold_stc_wf",
                                    "inputnode.bold_file">>})
                          ELSE WorkflowConnect(
                                 SetIterables(Create(s1, {"meepi_echos"}),
                                              "meepi_echos"),
                                 {<<"meepi_echos", "bold_file", "bold_stc_wf",
                                    "inputnode.bold_file">>})
                 ELSE IF ~a.multiecho
                      THEN WorkflowConnect(fpw,
                             {<<"inputnode", "bold_file", "boldbuffer",
                                "bold_file">>})
                      ELSE SetIterables(fpw, "boldbuffer")
       IN  fpw' = Goto(w1, "me")
    /\ UNCHANGED <<prog, cc, grab, ants, func, refwf, subj, anat, fms, tpl, f2b, wfn, ent, reg, bref, brun, xfm, pewf>>

\* Lines 385-414: for a multi-echo run the skull-stripping workflow, the
\* reassignment of inputnode.bold_file, the join over the echoes and the
\* T2* workflow.
FpwMultiecho ==
    LET \* local
        \* `"meepi_echos" if run_stc is True else "boldbuffer"`
        JoinEchosSource(run_stc) == IF run_stc THEN "meepi_echos" ELSE "boldbuffer"
        \* Lines 408-413.
        FpwJoinEchosConnections ==
            {<<"skullstrip_bold_wf", "outputnode.skull_stripped_file", "join_echos",
               "bold_files">>,
             <<"join_echos", "bold_files", "bold_t2smap_wf", "inputnode.bold_file">>}
    IN  /\ prog = "func_preproc"
        /\ fpw.pc = "me"
        /\ LET a == fpw.args
               w1 == IF a.multiecho
                     THEN LET m1 == Assign(Create(fpw, {"skullstrip_bold_wf"}),
                                           {<<"inputnode", "bold_file">>})
                              m2 == CreateJoin(m1, "join_echos",
                                               JoinEchosSource(a.run_stc))
                          IN  WorkflowConnect(Create(m2, {"bold_t2smap_wf"}),
                                              FpwJoinEchosConnections)
                     ELSE fpw
           IN  fpw' = Goto(w1, "main")
        /\ UNCHANGED <<prog, cc, grab, ants, func, refwf, subj, anat, fms, tpl, f2b, wfn, ent, reg, bref, brun, xfm, pewf>>

\* Lines 418-473: the main structure and the source of the series.
FpwMain ==
    LET \* local
        \* Lines 457-473.
        FpwSourceConnections(multiecho) ==
            IF ~multiecho
            THEN {<<"inputnode", "bold_file", "func_derivatives_wf",
                    "inputnode.source_file">>,
                  <<"bold_split", "out_files", "bold_t1_trans_wf",
                    "inputnode.bold_split">>}
            ELSE {<<"inputnode", "bold_file", "func_derivatives_wf",
                    "inputnode.source_file">>,
                  <<"bold_t2smap_wf", "outputnode.bold", "bold_confounds_wf",
                    "inputnode.bold">>,
                  <<"bold_t2smap_wf", "outputnode.bold", "bold_t1_trans_wf",
                    "inputnode.bold_split">>}
        \* Lines 418-453.
        FpwMainConnections ==
            {<<"inputnode", "anat_preproc", "bold_reg_wf", "inputnode.t1w_brain">>,
             <<"inputnode", "ref_file", "bold_reg_wf", "inputnode.ref_bold_brain">>,
             <<"inputnode", "anat_preproc", "t1w_brain", "in_file">>,
             <<"inputnode", "anat_mask", "t1w_brain", "in_mask">>,
             <<"boldbuffer", "bold_file", "bold_split", "in_file">>,
             <<"inputnode", "n_dummy_scans", "summary", "algo_dummy_scans">>,
             <<"inputnode", "ref_file", "bold_hmc_wf", "inputnode.raw_ref_image">>,
             <<"inputnode", "bold_file", "bold_hmc_wf", "inputnode.bold_file">>,
             <<"inputnode", "bold_file", "bold_t1_trans_wf", "inputnode.name_source">>,
             <<"inputnode", "anat_mask", "bold_t1_trans_wf", "inputnode.t1w_mask">>,
             <<"t1w_brain", "out_file", "bold_t1_trans_wf", "inputnode.t1w_brain">>,
             <<"bold_hmc_wf", "outputnode.xforms", "bold_t1_trans_wf",
               "inputnode.hmc_xforms">>,
             <<"bold_reg_wf", "outputnode.bold2anat", "bold_t1_trans_wf",
               "inputnode.bold2anat">>,
             <<"bold_t1_trans_wf", "outputnode.bold_t1", "outputnode", "bold_t1">>,
             <<"bold_t1_trans_wf", "outputnode.bold_t1_ref", "outputnode",
               "bold_t1_ref">>,
             <<"inputnode", "anat_mask", "t1w_mask_bold_tfm", "input_image">>,
             <<"inputnode", "ref_file", "t1w_mask_bold_tfm", "reference_image">>,
             <<"bold_reg_wf", "outputnode.anat2bold", "t1w_mask_bold_tfm",
               "transforms">>,
             <<"inputnode", "anat_tpms", "bold_confounds_wf", "inputnode.anat_tpms">>,
             <<"inputnode", "anat_mask", "bold_confounds_wf", "inputnode.t1w_mask">>,
             <<"bold_hmc_wf", "outputnode.movpar_file", "bold_confounds_wf",
               "inputnode.movpar_file">>,
             <<"bold_reg_wf", "outputnode.anat2bold", "bold_confounds_wf",
               "inputnode.anat2bold">>,
             <<"inputnode", "n_dummy_scans", "bold_confounds_wf",
               "inputnode.skip_vols">>,
             <<"bold_confounds_wf", "outputnode.confounds_file", "outputnode",
               "confounds">>,
             <<"bold_confounds_wf", "outputnode.confounds_metadata", "outputnode",
               "confounds_metadata">>,
             <<"outputnode", "confounds", "summary", "confounds_file">>}
    IN  /\ prog = "func_preproc"
        /\ fpw.pc = "main"
        /\ LET w1 == WorkflowConnect(fpw, FpwMainConnections)
               w2 == WorkflowConnect(w1, FpwSourceConnections(fpw.args.multiecho))
           IN  fpw' = Goto(w2, "spaces")
        /\ UNCHANGED <<prog, cc, grab, ants, func, refwf, subj, anat, fms, tpl, f2b, wfn, ent, reg, bref, brun, xfm, pewf>>

\* Lines 476-562: the mask in T1w space and the resampling to standard
\* spaces with the carpet plot, when such spaces are requested.
FpwSpaces ==
    LET \* local
        \* Lines 549-562.
        FpwStdSplitConnections(multiecho) ==
            IF ~multiecho
            THEN {<<"bold_split", "out_files", "bold_std_trans_wf",
                    "inputnode.bold_split">>}
            ELSE {<<"bold_t2smap_wf", "outputnode.bold", "split_opt_comb", "in_file">>,
                  <<"split_opt_comb", "out_files", "bold_std_trans_wf",
                    "inputnode.bold_split">>}
        \* Lines 520-546.
        FpwStdConnections ==
            {<<"inputnode", "template", "bold_std_trans_wf", "inputnode.templates">>,
             <<"inputnode", "anat2std_xfm", "bold_std_trans_wf",
               "inputnode.anat2std_xfm">>,
             <<"inputnode", "bold_file", "bold_std_trans_wf", "inputnode.name_source">>,
             <<"t1w_mask_bold_tfm", "output_image", "bold_std_trans_wf",
               "inputnode.bold_mask">>,
             <<"bold_hmc_wf", "outputnode.xforms", "bold_std_trans_wf",
               "inputnode.hmc_xforms">>,
             <<"bold_reg_wf", "outputnode.bold2anat", "bold_std_trans_wf",
               "inputnode.bold2anat">>,
             <<"bold_std_trans_wf", "outputnode.bold_std", "outputnode", "bold_std">>,
             <<"bold_std_trans_wf", "outputnode.bold_std_ref", "outputnode",
               "bold_std_ref">>,
             <<"bold_std_trans_wf", "outputnode.bold_mask_std", "outputnode",
               "bold_mask_std">>,
             <<"bold_std_trans_wf", "outputnode.template", "func_derivatives_wf",
               "inputnode.template">>,
             <<"bold_std_trans_wf", "outputnode.spatial_reference",
               "func_derivatives_wf", "inputnode.spatial_reference">>,
             <<"bold_std_trans_wf", "outputnode.bold_std_ref", "func_derivatives_wf",
               "inputnode.bold_std_ref">>,
             <<"bold_std_trans_wf", "outputnode.bold_std", "func_derivatives_wf",
               "inputnode.bold_std">>,
             <<"bold_std_trans_wf", "outputnode.bold_mask_std", "func_derivatives_wf",
               "inputnode.bold_mask_std">>,
             <<"inputnode", "std2anat_xfm", "carpetplot_select_std", "std2anat_xfm">>,
             <<"inputnode", "template", "carpetplot_select_std", "keys">>,
             <<"inputnode", "n_dummy_scans", "carpetplot_wf", "inputnode.dummy_scans">>,
             <<"carpetplot_select_std", "std2anat_xfm", "carpetplot_wf",
               "inputnode.std2anat_xfm">>,
             <<"t1w_mask_bold_tfm", "output_image", "carpetplot_wf",
               "inputnode.bold_mask">>,
             <<"bold_reg_wf", "outputnode.anat2bold", "carpetplot_wf",
               "inputnode.anat2bold">>,
             <<"bold_confounds_wf", "outputnode.confounds_file", "carpetplot_wf",
               "inputnode.confounds_file">>}
        \* Lines 488-493.
        FpwMaskT1wConnections ==
            {<<"bold_reg_wf", "outputnode.bold2anat", "boldmask_to_t1w", "transforms">>,
             <<"bold_t1_trans_wf", "outputnode.bold_mask_t1", "boldmask_to_t1w",
               "reference_image">>,
             <<"t1w_mask_bold_tfm", "output_image", "boldmask_to_t1w", "input_image">>,
             <<"boldmask_to_t1w", "output_image", "outputnode", "bold_mask_t1">>}
    IN  /\ prog = "func_preproc"
        /\ fpw.pc = "spaces"
        /\ LET a == fpw.args
               w1 == IF a.anat_space
                     THEN WorkflowConnect(Create(fpw, {"boldmask_to_t1w"}),
                                          FpwMaskT1wConnections)
                     ELSE fpw
               w2 == IF a.std_spaces
                     THEN LET s1 == Create(w1, {"bold_std_trans_wf",
                                                "carpetplot_wf",
                                                "carpetplot_select_std"})
                              s2 == [s1 EXCEPT !.std_trans =
                                        BoldStdTransConnections(a.has_fieldmap)]
                              s3 == WorkflowConnect(s2, FpwStdConnections)
                              s4 == IF a.multiecho
                                    THEN Create(s3, {"split_opt_comb"}) ELSE s3
                          IN  WorkflowConnect(s4,
                                              FpwStdSplitConnections(a.multiecho))
                     ELSE w1
           IN  fpw' = Goto(w2, "report")
        /\ UNCHANGED <<prog, cc, grab, ants, func, refwf, subj, anat, fms, tpl, f2b, wfn, ent, reg, bref, brun, xfm, pewf>>

\* Lines 565-597: the two report sinks are created and connected, then
\* every ds_report* node seen so far gets base_directory and source_file.
FpwReporting ==
    LET \* local
        \* `node.split(".")[-1].startswith("ds_report")` over the nodes of the
        \* workflow itself.
        DsReportNodes(created) ==
            created \cap {"ds_report_summary", "ds_report_validation", "ds_report_sdc"}
        \* Lines 587-590.
        FpwReportConnections ==
            {<<"summary", "out_report", "ds_report_summary", "in_file">>,
             <<"inputnode", "validation_report", "ds_report_validation", "in_file">>}
    IN  /\ prog = "func_preproc"
        /\ fpw.pc = "report"
        /\ LET w1 == WorkflowConnect(
                        Create(fpw, {"ds_report_summary", "ds_report_validation"}),
                        FpwReportConnections)
               w2 == Assign(w1, {<<n, f>> : n \in DsReportNodes(w1.created),
                                            f \in {"base_directory", "source_file"}})
           IN  fpw' = Goto(w2, IF fpw.args.has_fieldmap THEN "sdc" ELSE "nosdc")
        /\ UNCHANGED <<prog, cc, grab, ants, func, refwf, subj, anat, fms, tpl, f2b, wfn, ent, reg, bref, brun, xfm, pewf>>

\* Lines 599-647: without a fieldmap, the one-shot resampling in native
\* space, and `return workflow`.
FpwNoFieldmap ==
    LET \* local
        \* Lines 640-645.
        FpwNativeConnections ==
            {<<"bold_bold_trans_wf", "outputnode.bold", "outputnode", "bold_native">>,
             <<"bold_bold_trans_wf", "outputnode.bold_ref", "func_derivatives_wf",
               "inputnode.bold_native_ref">>,
             <<"bold_bold_trans_wf", "outputnode.bold_mask", "func_derivatives_wf",
               "inputnode.bold_mask_native">>}
        \* Lines 625-635.
        FpwNoFieldmapBoldConnections(multiecho) ==
            IF ~multiecho
            THEN {<<"bold_bold_trans_wf", "outputnode.bold", "bold_confounds_wf",
                    "inputnode.bold">>,
                  <<"bold_bold_trans_wf", "outputnode.bold", "carpetplot_wf",
                    "inputnode.bold">>}
            ELSE {<<"bold_bold_trans_wf", "outputnode.bold", "skullstrip_bold_wf",
                    "inputnode.in_file">>,
                  <<"bold_t2smap_wf", "outputnode.bold", "carpetplot_wf",
                    "inputnode.bold">>}
        \* Lines 614-623.
        FpwNoFieldmapConnections ==
            {<<"inputnode", "ref_file", "bold_t1_trans_wf", "inputnode.ref_bold_brain">>,
             <<"inputnode", "ref_file", "bold_bold_trans_wf", "inputnode.bold_ref">>,
             <<"t1w_mask_bold_tfm", "output_image", "outputnode", "bold_mask">>,
             <<"t1w_mask_bold_tfm", "output_image", "bold_confounds_wf",
               "inputnode.bold_mask">>,
             <<"t1w_mask_bold_tfm", "output_image", "bold_bold_trans_wf",
               "inputnode.bold_mask">>,
             <<"bold_split", "out_files", "bold_bold_trans_wf", "inputnode.bold_file">>,
             <<"bold_hmc_wf", "outputnode.xforms", "bold_bold_trans_wf",
               "inputnode.hmc_xforms">>}
    IN  /\ prog = "func_preproc"
        /\ fpw.pc = "nosdc"
        /\ LET a == fpw.args
               w1 == Assign(fpw, {<<"summary", "distortion_correction">>})
               w2 == WorkflowConnect(Create(w1, {"bold_bold_trans_wf"}),
                                     FpwNoFieldmapConnections)
               w3 == WorkflowConnect(Unbound(w2, {"carpetplot_wf"}),
                                     FpwNoFieldmapBoldConnections(a.multiecho))
               w4 == IF a.native_space
                     THEN WorkflowConnect(w3, FpwNativeConnections) ELSE w3
           IN  fpw' = Goto(w4, "done")
        /\ UNCHANGED <<prog, cc, grab, ants, func, refwf, subj, anat, fms, tpl, f2b, wfn, ent, reg, bref, brun, xfm, pewf>>

\* Lines 657-722: with a fieldmap, the coefficient alignment, the unwarping,
\* the final reference and the SDC report.
FpwFieldmap ==
    LET \* local
        \* Lines 700-721.
        FpwSdcConnections ==
            {<<"inputnode", "sdc_method", "summary", "distortion_correction">>,
             <<"inputnode", "fmap_ref", "coeff2epi_wf", "inputnode.fmap_ref">>,
             <<"inputnode", "fmap_coeff", "coeff2epi_wf", "inputnode.fmap_coeff">>,
             <<"inputnode", "fmap_mask", "coeff2epi_wf", "inputnode.fmap_mask">>,
             <<"inputnode", "ref_file", "coeff2epi_wf", "inputnode.target_ref">>,
             <<"t1w_mask_bold_tfm", "output_image", "coeff2epi_wf",
               "inputnode.target_mask">>,
             <<"t1w_mask_bold_tfm", "output_image", "bold_reference_wf",
               "inputnode.bold_mask">>,
             <<"inputnode", "ref_file", "unwarp_wf", "inputnode.distorted_ref">>,
             <<"coeff2epi_wf", "outputnode.fmap_coeff", "unwarp_wf",
               "inputnode.fmap_coeff">>,
             <<"bold_hmc_wf", "outputnode.xforms", "unwarp_wf", "inputnode.hmc_xforms">>,
             <<"bold_split", "out_files", "unwarp_wf", "inputnode.distorted">>,
             <<"bold_reference_wf", "outputnode.ref_image", "bold_t1_trans_wf",
               "inputnode.ref_bold_brain">>,
             <<"inputnode", "ref_file", "sdc_report", "before">>,
             <<"bold_reference_wf", "outputnode.ref_image", "sdc_report", "after">>,
             <<"bold_reference_wf", "outputnode.bold_mask", "sdc_report", "wm_seg">>,
             <<"inputnode", "bold_file", "ds_report_sdc", "source_file">>,
             <<"sdc_report", "out_report", "ds_report_sdc", "in_file">>,
             <<"bold_reference_wf", "outputnode.bold_mask", "bold_confounds_wf",
               "inputnode.bold_mask">>}
    IN  /\ prog = "func_preproc"
        /\ fpw.pc = "sdc"
        /\ LET w1 == Create(fpw, {"coeff2epi_wf", "unwarp_wf", "bold_reference_wf",
                                  "sdc_report", "ds_report_sdc"})
               w2 == WorkflowConnect(w1, FpwSdcConnections)
           IN  fpw' = Goto(w2, "unwarp")
        /\ UNCHANGED <<prog, cc, grab, ants, func, refwf, subj, anat, fms, tpl, f2b, wfn, ent, reg, bref, brun, xfm, pewf>>

\* Lines 724-799: the unwarped series is handed on, directly for a
\* single-echo run and through join_sdc_echos for a multi-echo one, and
\* `return workflow`.
FpwUnwarp ==
    LET \* local
        \* Lines 770-796.
        FpwJoinSdcConnections ==
            {<<"unwarp_wf", "outputnode.corrected", "join_echos", "bold_files">>,
             <<"unwarp_wf", "outputnode.fieldmap", "join_sdc_echos", "fieldmap">>,
             <<"unwarp_wf", "outputnode.fieldwarp", "join_sdc_echos", "fieldwarp">>,
             <<"unwarp_wf", "outputnode.corrected", "join_sdc_echos", "corrected">>,
             <<"unwarp_wf", "outputnode.corrected_ref", "join_sdc_echos",
               "corrected_ref">>,
             <<"unwarp_wf", "outputnode.corrected_mask", "join_sdc_echos",
               "corrected_mask">>,
             <<"join_sdc_echos", "corrected", "bold_reference_wf",
               "inputnode.bold_file">>,
             <<"join_sdc_echos", "corrected_mask", "bold_t2smap_wf",
               "inputnode.bold_mask">>,
             <<"join_sdc_echos", "fieldwarp", "bold_t1_trans_wf",
               "inputnode.fieldwarp">>,
             <<"join_sdc_echos", "fieldwarp", "bold_std_trans_wf",
               "inputnode.fieldwarp">>}
        \* Lines 726-740.
        FpwUnwarpConnections ==
            {<<"unwarp_wf", "outputnode.corrected", "outputnode", "bold_native">>,
             <<"unwarp_wf", "outputnode.corrected", "bold_reference_wf",
               "inputnode.bold_file">>,
             <<"unwarp_wf", "outputnode.corrected", "bold_confounds_wf",
               "inputnode.bold">>,
             <<"unwarp_wf", "outputnode.corrected", "carpetplot_wf", "inputnode.bold">>,
             <<"unwarp_wf", "outputnode.fieldwarp", "bold_t1_trans_wf",
               "inputnode.fieldwarp">>,
             <<"unwarp_wf", "outputnode.fieldwarp", "bold_std_trans_wf",
               "inputnode.fieldwarp">>}
    IN  /\ prog = "func_preproc"
        /\ fpw.pc = "unwarp"
        /\ LET a == fpw.args
               w1 == IF ~a.multiecho
                     THEN WorkflowConnect(
                            Unbound(fpw, {"carpetplot_wf", "bold_std_trans_wf"}),
                            FpwUnwarpConnections)
                     ELSE WorkflowConnect(
                            Unbound(CreateJoin(fpw, "join_sdc_echos", "echo_index"),
                                    {"bold_std_trans_wf"}),
                            FpwJoinSdcConnections)
           IN  fpw' = Goto(w1, "done")
        /\ UNCHANGED <<prog, cc, grab, ants, func, refwf, subj, anat, fms, tpl, f2b, wfn, ent, reg, bref, brun, xfm, pewf>>

(***************************************************************************)
(* init_single_subject_wf, the body of the supported PEPOLAR branch        *)
(* (src/fprodents/workflows/base.py, lines 468-549): the estimator         *)
(* workflow built by sdcflows is given inputs and rewired.                 *)
(***************************************************************************)

\* `config.execution.debug`
PeWfInputs == [debug : BOOLEAN]

\* The edges of the estimator workflow that the branch removes: they are
\* what the workflow comes with.
PeWfBuiltConnections ==
    {<<"to_las", "out_file", "topup", "in_file">>,
     <<"topup", "out_fieldcoef", "fix_coeff", "in_coeff">>,
     <<"fix_coeff", "out_coeff", "outputnode", "fmap_coeff">>,
     <<"topup", "out_corrected", "from_las", "in_file">>,
     <<"topup", "out_field", "from_las_fmap", "in_file">>,
     <<"topup", "out_warps", "outputnode", "out_warps">>}

\* Lines 503-505.
PeWfDisconnections ==
    {<<"to_las", "out_file", "topup", "in_file">>,
     <<"topup", "out_fieldcoef", "fix_coeff", "in_coeff">>,
     <<"fix_coeff", "out_coeff", "outputnode", "fmap_coeff">>}

\* Lines 539-541.
PeWfDescaleDisconnections ==
    {<<"topup", "out_corrected", "from_las", "in_file">>,
     <<"topup", "out_field", "from_las_fmap", "in_file">>,
     <<"topup", "out_warps", "outputnode", "out_warps">>}

\* `workflow.disconnect(src, port, dst, port)` for each edge of `edges`:
\* the edges are removed; those that existed are recorded.
Disconnect(w, edges) ==
    IF w.pc = "raised" THEN w
    ELSE [w EXCEPT !.connections = @ \ edges,
                   !.disconnected = @ \cup (edges \cap w.connections)]

PeWfIdle ==
    [pc |-> "idle", args |-> [debug |-> FALSE], declared |-> {},
     created |-> {}, connections |-> {}, late |-> {}, disconnected |-> {},
     exc |-> "none"]

\* `pe_wf = fmap_wf.get_node(f"wf_{estimator.bids_id}")`
PeWfStart(inp) ==
    [PeWfIdle EXCEPT !.pc = "start", !.args = inp,
                     !.declared = Fields("outputnode",
                                         {"fmap_coeff", "out_warps"}),
                     !.created = NodesOf(PeWfBuiltConnections)
                                 \cup {"setwise_avg", "brainextraction_wf"},
                     !.connections = PeWfBuiltConnections]

\* Lines 472-496: three nodes are added and inputs of the workflow's nodes
\* are assigned.
PeWfAssign ==
    LET \* local
        \* Lines 488-496.
        PeWfAssignments ==
            {<<"to_las", "target_orientation">>, <<"setwise_avg", "two_pass">>,
             <<"brainextraction_wf", "n4.args">>,
             <<"brainextraction_wf", "n4.shrink_factor">>,
             <<"brainextraction_wf", "n4.n_iterations">>,
             <<"scale_topup_inputs", "factor">>}
    IN  /\ prog = "pepolar_rewire"
        /\ pewf.pc = "start"
        /\ LET w1 == Create(pewf, {"scale_topup_inputs", "fix_fieldcoeff_affine",
                                   "reorient_fieldcoeff"})
           IN  pewf' = Goto(Assign(w1, PeWfAssignments), "rewire")
        /\ UNCHANGED <<prog, cc, grab, ants, func, refwf, subj, anat, fms, tpl, f2b, wfn, ent, reg, bref, brun, xfm, fpw>>

\* Lines 497-549: three edges are replaced by paths through the new nodes
\* and, unless debugging, three more through the descaling nodes.
PeWfRewire ==
    LET \* local
        \* Lines 542-549.
        PeWfDescaleConnections ==
            {<<"topup", "out_corrected", "descale_topup_corrected", "in_file">>,
             <<"descale_topup_corrected", "out", "from_las", "in_file">>,
             <<"topup", "out_field", "descale_topup_field", "in_file">>,
             <<"descale_topup_field", "out", "from_las_fmap", "in_file">>,
             <<"topup", "out_warps", "descale_topup_warp", "in_file">>,
             <<"descale_topup_warp", "out", "outputnode", "out_warps">>}
        \* Lines 506-515.
        PeWfConnections ==
            {<<"to_las", "out_file", "scale_topup_inputs", "in_file">>,
             <<"to_las", "out_file", "fix_fieldcoeff_affine", "reference_image">>,
             <<"scale_topup_inputs", "out", "topup", "in_file">>,
             <<"topup", "out_fieldcoef", "fix_fieldcoeff_affine", "moving_image">>,
             <<"fix_fieldcoeff_affine", "out", "fix_coeff", "in_coeff">>,
             <<"fix_coeff", "out_coeff", "reorient_fieldcoeff", "moving_image">>,
             <<"setwise_avg", "out_file", "reorient_fieldcoeff", "reference_image">>,
             <<"reorient_fieldcoeff", "out", "outputnode", "fmap_coeff">>}
    IN  /\ prog = "pepolar_rewire"
        /\ pewf.pc = "rewire"
        /\ LET w1 == WorkflowConnect(Disconnect(pewf, PeWfDisconnections),
                                     PeWfConnections)
               w2 == IF ~pewf.args.debug
                     THEN WorkflowConnect(
                            Disconnect(Create(w1, {"descale_topup_corrected",
                                                   "descale_topup_field",
                                                   "descale_topup_warp"}),
                                       PeWfDescaleDisconnections),
                            PeWfDescaleConnections)
                     ELSE w1
           IN  pewf' = Goto(w2, "done")
        /\ UNCHANGED <<prog, cc, grab, ants, func, refwf, subj, anat, fms, tpl, f2b, wfn, ent, reg, bref, brun, xfm, fpw>>

(***************************************************************************)
(* The specification                                                       *)
(***************************************************************************)

Init ==
    /\ prog \in Programs
    /\ cc \in IF prog = "compcor"
              THEN {CompCorStart(c) : c \in CompCorClasses}
              ELSE {CompCorIdle}
    /\ grab \in IF prog = "grabber"
                THEN {GrabberStart(d, rf) : d \in SubjectData, rf \in BOOLEAN}
                ELSE {GrabberIdle}
    /\ ants \in IF prog = "ants"
                THEN {AntsStart(inp) : inp \in AntsInputs}
                ELSE {AntsIdle}
    /\ func \in IF prog = "func"
                THEN {FuncStart(bf) : bf \in BoldInputs}
                ELSE {FuncIdle}
    /\ refwf \in IF prog = "refwf"
                 THEN {RefWfStart(bf) : bf \in BoldInputs}
                 ELSE {RefWfIdle}
    /\ subj \in IF prog = "subject"
                THEN {SubjStart(bf, ests) :
                         bf \in SubjectBoldRuns,
                         ests \in SeqsUpTo(Estimators, MaxEstimators)
                                  \cup {<<>>}}
                ELSE {SubjIdle}
    /\ anat \in IF prog = "anat"
                THEN {AnatStart(inp) : inp \in AnatInputs}
                ELSE {AnatIdle}
    /\ fms \in IF prog = "fix_multi_source_name"
               THEN {FmsStart(inp) : inp \in FmsInputs}
               ELSE {FmsIdle}
    /\ tpl \in IF prog = "get_template_specs"
               THEN {TplStart(inp) : inp \in TplInputs}
               ELSE {TplIdle}
    /\ f2b \in IF prog = "probseg_fast2bids"
               THEN {F2bStart(inlist) : inlist \in ProbsegInputs}
               ELSE {F2bIdle}
    /\ wfn \in IF prog = "get_wf_name"
               THEN {WfnStart(inp) : inp \in WfNameInputs}
               ELSE {WfnIdle}
    /\ ent \in IF prog = "extract_entities"
               THEN {EntStart(fl) : fl \in EntInputs}
               ELSE {EntIdle}
    /\ reg \in IF prog = "bold_reg"
               THEN {RegStart(inp) : inp \in RegInputs}
               ELSE {RegIdle}
    /\ bref \in IF prog = "bold_reference"
                THEN {BrefStart(inp) : inp \in BrefInputs}
                ELSE {BrefIdle}
    /\ brun \in IF prog = "build_run"
                THEN {BuildRunStart(inp) : inp \in BuildRunInputs}
                ELSE {BuildRunIdle}
    /\ xfm \in IF prog = "bold_trans"
                THEN {XfmStart(inp) : inp \in XfmInputs}
                ELSE {XfmIdle}
    /\ fpw \in IF prog = "func_preproc"
                THEN {FpwStart(inp) : inp \in FpwInputs}
                ELSE {FpwIdle}
    /\ pewf \in IF prog = "pepolar_rewire"
                THEN {PeWfStart(inp) : inp \in PeWfInputs}
                ELSE {PeWfIdle}

Next ==
    \/ \E o \in DecompositionOutcomes : CompCorCall(o)
    \/ CompCorSleep
    \/ GrabberRun
    \/ AntsRun
    \/ FuncEchoGate
    \/ FuncBuild
    \/ RefWfRun
    \/ SubjNoFieldmap
    \/ SubjReference
    \/ SubjEstimator
    \/ SubjReturn
    \/ AnatDeclare
    \/ AnatReuse
    \/ AnatSkullStrip
    \/ AnatConnect
    \/ FmsRun
    \/ TplRun
    \/ F2bApply
    \/ WfnRun
    \/ EntRun
    \/ RegCheckInit
    \/ RegConnect
    \/ BrefReference
    \/ BrefFinish
    \/ BuildSingleSubject
    \/ RunBidssrc
    \/ XfmT1Trans
    \/ XfmStdTrans
    \/ FpwDeclare
    \/ FpwStc
    \/ FpwMultiecho
    \/ FpwMain
    \/ FpwSpaces
    \/ FpwReporting
    \/ FpwNoFieldmap
    \/ FpwFieldmap
    \/ FpwUnwarp
    \/ PeWfAssign
    \/ PeWfRewire

Spec == Init /\ [][Next]_vars

\* The retry wrapper runs in one thread of control: a call of the wrapped
\* decomposition returns or raises and a sleep ends, so neither step is
\* put off forever.
FairSpec ==
    /\ Spec
    /\ WF_vars(\E o \in DecompositionOutcomes : CompCorCall(o))
    /\ WF_vars(CompCorSleep)

(***************************************************************************)
(* Claims about the CompCor retry wrappers                                 *)
(***************************************************************************)

CompCorDone == prog = "compcor" /\ cc.pc \in {"returned", "raised"}

\* C1: the wrapped decomposition is retried up to 10 times on LinAlgError and
\* the error is then re-raised: a call in which every attempt failed with
\* LinAlgError has invoked the decomposition exactly 11 times and raises the
\* LinAlgError of the last (11th) attempt; a call that returns returns the
\* runtime of the attempt that succeeded, which is the last one made; and
\* once the call has returned or raised no further attempt is made.
C1_RetryThenReraise ==
    /\ [](CompCorDone =>
            /\ cc.attempts <= 11
            /\ (cc.failures = cc.attempts) =>
                  /\ cc.attempts = 11
                  /\ cc.pc = "raised"
                  /\ cc.exc = [type |-> "LinAlgError", attempt |-> 11]
            /\ (cc.pc = "raised" /\ cc.exc.type = "LinAlgError") =>
                  /\ cc.failures = cc.attempts
                  /\ cc.exc.attempt = cc.attempts
            /\ (cc.pc = "returned") =>
                  /\ cc.outcome = "ok"
                  /\ cc.result = cc.attempts
                  /\ cc.failures = cc.attempts - 1
                  /\ cc.exc = NoExc)
    /\ [][CompCorDone => cc'.attempts = cc.attempts]_vars

\* C1 witness: all 11 attempts failed and the last LinAlgError was raised.
C1_Witness ==
    /\ prog = "compcor"
    /\ cc.pc = "raised"
    /\ cc.exc.type = "LinAlgError"
    /\ cc.attempts = 11
    /\ cc.failures = 11

\* C2 as stated: once the failure count has reached 10 the LinAlgError has
\* propagated: there is no further sleep and no further attempt.
C2_Original ==
    (prog = "compcor" /\ cc.failures >= 10) =>
        (cc.pc = "raised" /\ cc.exc.type = "LinAlgError")

\* C2 as amended: the LinAlgError propagates after 11 failures.  The 10th
\* failure is still followed by a sleep and an 11th attempt; once the
\* failure count reaches 11 the call has raised, after exactly 10 sleeps, and
\* a call never raises LinAlgError on fewer than 11 failures.
C2_PropagatesAfterEleven ==
    prog = "compcor" =>
        /\ cc.failures <= 11
        /\ (cc.failures = 11) =>
              /\ cc.pc = "raised"
              /\ cc.exc.type = "LinAlgError"
              /\ cc.sleeps = 10
              /\ cc.attempts = 11
        /\ (cc.pc = "raised" /\ cc.exc.type = "LinAlgError") =>
              cc.failures = 11
        /\ (cc.failures = 10 /\ cc.outcome = "LinAlgError") =>
              cc.pc \in {"sleep", "call"}

\* C2 witness: after the 10th failure the wrapper has slept a 10th time and
\* is about to make one more attempt.
C2_Witness ==
    /\ prog = "compcor"
    /\ cc.failures = 10
    /\ cc.sleeps = 10
    /\ cc.pc = "call"

\* The sleep that has just ended (the wrapper is back at the top of its
\* loop), the k-th one, after the k-th caught LinAlgError.
JustSlept == prog = "compcor" /\ cc.pc = "call" /\ cc.sleeps > 0

\* C3 as stated: the k-th sleep lasts d seconds with
\* start + 4 <= d < start + 10, start = (k - 1) * 10.
C3_Original ==
    JustSlept =>
        LET k == cc.failures
            start == (k - 1) * 10
        IN  /\ 1 <= k /\ k <= 10
            /\ start + 4 <= cc.slept
            /\ cc.slept < start + 10

\* C3 as amended: after the k-th caught LinAlgError (1 <= k <= 10) the
\* wrapper sleeps d seconds with start + 4 <= d <= start + 10,
\* start = (k - 1) * 10: both ends are included, and the k-th sleep follows
\* the k-th failure.
C3_SleepInClosedRange ==
    JustSlept =>
        LET k == cc.failures
            start == (k - 1) * 10
        IN  /\ 1 <= k /\ k <= 10
            /\ cc.sleeps = k
            /\ start + 4 <= cc.slept
            /\ cc.slept <= start + 10

\* C3 witness: a sleep of exactly start + 10 seconds, after the 3rd failure.
C3_Witness ==
    /\ JustSlept
    /\ cc.failures = 3
    /\ cc.slept = (cc.failures - 1) * 10 + 10

(***************************************************************************)
(* Claims about BIDSDataGrabber                                            *)
(***************************************************************************)

GrabberDone == prog = "grabber" /\ grab.pc \in {"returned", "raised"}

\* C4: _run_interface raises FileNotFoundError if and only if the 't2w' list
\* is empty, or functional images are required and the 'bold' list is empty;
\* no other empty list makes it raise (those are only logged); when T2w and
\* BOLD are both missing the error raised is the T2w one.
C4_GrabberRaisesIff ==
    GrabberDone =>
        LET d == grab.subject_data
            no_t2w == d["t2w"] = 0
            no_bold == d["bold"] = 0
        IN  /\ (grab.pc = "raised") <=>
                  (no_t2w \/ (grab.require_funcs /\ no_bold))
            /\ (grab.pc = "raised") => grab.exc = "FileNotFoundError"
            /\ (grab.pc = "returned") => grab.exc = "none"
            /\ no_t2w => grab.msg = "T2w"
            /\ (grab.pc = "raised" /\ ~no_t2w) => grab.msg = "functional"
            /\ (grab.pc = "returned") =>
                  grab.logged =
                      {t \in {"bold", "t1w", "flair", "fmap", "sbref", "roi"} :
                          d[t] = 0}

\* C4 witness: T2w and BOLD both missing with functional images required,
\* every optional type missing too: the T2w error was raised.
C4_Witness ==
    /\ prog = "grabber"
    /\ grab.pc = "raised"
    /\ grab.require_funcs
    /\ \A t \in ImTypes : grab.subject_data[t] = 0
    /\ grab.msg = "T2w"

(***************************************************************************)
(* Claims about RobustMNINormalization._get_ants_args                      *)
(***************************************************************************)

AntsReturned == prog = "ants" /\ ants.pc = "returned"

\* C5: for every combination of (moving_mask defined, explicit_masking,
\* lesion_mask defined) the args returned follow the documented moving-image
\* table: (T,T,T) the moving image is masked and moving_image_masks is
\* create_cfm(moving_mask, lesion_mask, global_mask=True); (T,T,F) the moving
\* image is masked and moving_image_masks is not set; (T,F,T) the moving
\* image is unmasked and moving_image_masks is create_cfm(moving_mask,
\* lesion_mask, global_mask=False); (T,F,F) moving_image_masks is the moving
\* mask; (F,*,T) moving_image_masks is create_cfm(moving_image, lesion_mask,
\* global_mask=True); (F,*,F) nothing is changed or set.
C5_MovingTable ==
    AntsReturned =>
        LET i == ants.inp
            a == ants.args
            unmasked == <<"file", "moving_image">>
            masked == <<"mask", "moving_image", "moving_mask",
                        "moving_masked.nii.gz">>
        IN  /\ (i.moving_mask /\ i.explicit_masking /\ i.lesion_mask) =>
                  /\ a.moving_image = masked
                  /\ a.moving_image_masks =
                        <<"create_cfm", "moving_mask", "lesion_mask", "True">>
            /\ (i.moving_mask /\ i.explicit_masking /\ ~i.lesion_mask) =>
                  /\ a.moving_image = masked
                  /\ a.moving_image_masks = <<"unset">>
            /\ (i.moving_mask /\ ~i.explicit_masking /\ i.lesion_mask) =>
                  /\ a.moving_image = unmasked
                  /\ a.moving_image_masks =
                        <<"create_cfm", "moving_mask", "lesion_mask", "False">>
            /\ (i.moving_mask /\ ~i.explicit_masking /\ ~i.lesion_mask) =>
                  /\ a.moving_image = unmasked
                  /\ a.moving_image_masks = <<"file", "moving_mask">>
            /\ (~i.moving_mask /\ i.lesion_mask) =>
                  /\ a.moving_image = unmasked
                  /\ a.moving_image_masks =
                        <<"create_cfm", "moving_image", "lesion_mask", "True">>
            /\ (~i.moving_mask /\ ~i.lesion_mask) =>
                  /\ a.moving_image = unmasked
                  /\ a.moving_image_masks = <<"unset">>

\* C5 witness: row (T,T,T) of the moving-image table has been returned.
C5_Witness ==
    /\ AntsReturned
    /\ ants.inp.moving_mask /\ ants.inp.explicit_masking /\ ants.inp.lesion_mask
    /\ ants.args.moving_image_masks[1] = "create_cfm"

\* Row (True, False, True) of the reference-image table, with a reference
\* image supplied.
ReferenceRowTFT ==
    /\ ants.inp.reference_image
    /\ ants.inp.reference_mask
    /\ ~ants.inp.explicit_masking
    /\ ants.inp.lesion_mask

\* C6: with a reference image and a reference mask, explicit masking
\* disabled and a lesion mask, fixed_image_masks is a cost-function mask made
\* by create_cfm with global_mask=False, and fixed_image is left unmasked.
C6_ReferenceRowTFT ==
    (AntsReturned /\ ReferenceRowTFT) =>
        /\ ants.args.fixed_image = <<"file", "reference_image">>
        /\ ants.args.fixed_image_masks[1] = "create_cfm"
        /\ ants.args.fixed_image_masks[4] = "False"

\* C7: with a reference image supplied, the other five rows of the
\* reference-image table for (reference_mask defined, explicit_masking,
\* lesion_mask defined): (T,T,T) fixed_image is the masked reference and
\* fixed_image_masks is create_cfm(reference_mask, global_mask=True);
\* (T,T,F) fixed_image is the masked reference and fixed_image_masks is not
\* set; (T,F,F) fixed_image is the unmasked reference and fixed_image_masks
\* is the reference mask; (F,*,T) fixed_image_masks is
\* create_cfm(reference_image, global_mask=True); (F,*,F) fixed_image is the
\* reference image and fixed_image_masks is not set.
C7_ReferenceTable ==
    (AntsReturned /\ ants.inp.reference_image) =>
        LET i == ants.inp
            a == ants.args
            unmasked == <<"file", "reference_image">>
            masked == <<"mask", "reference_image", "reference_mask",
                        "fixed_masked.nii.gz">>
        IN  /\ (i.reference_mask /\ i.explicit_masking /\ i.lesion_mask) =>
                  /\ a.fixed_image = masked
                  /\ a.fixed_image_masks =
                        <<"create_cfm", "reference_mask", "None", "True">>
            /\ (i.reference_mask /\ i.explicit_masking /\ ~i.lesion_mask) =>
                  /\ a.fixed_image = masked
                  /\ a.fixed_image_masks = <<"unset">>
            /\ (i.reference_mask /\ ~i.explicit_masking /\ ~i.lesion_mask) =>
                  /\ a.fixed_image = unmasked
                  /\ a.fixed_image_masks = <<"file", "reference_mask">>
            /\ (~i.reference_mask /\ i.lesion_mask) =>
                  /\ a.fixed_image = unmasked
                  /\ a.fixed_image_masks =
                        <<"create_cfm", "reference_image", "None", "True">>
            /\ (~i.reference_mask /\ ~i.lesion_mask) =>
                  /\ a.fixed_image = unmasked
                  /\ a.fixed_image_masks = <<"unset">>

\* C7 witness: row (T,T,T) of the reference-image table has been returned.
C7_Witness ==
    /\ AntsReturned
    /\ ants.inp.reference_image /\ ants.inp.reference_mask
    /\ ants.inp.explicit_masking /\ ants.inp.lesion_mask
    /\ ants.args.fixed_image[1] = "mask"
    /\ ants.args.fixed_image_masks[1] = "create_cfm"

AntsDone == prog = "ants" /\ ants.pc \in {"returned", "raised"}

\* C8 as stated: whenever orientation is 'LAS' the call raises
\* NotImplementedError, whatever the other inputs.
C8_Original ==
    (AntsDone /\ ants.inp.orientation = "LAS") =>
        (ants.pc = "raised" /\ ants.exc = "NotImplementedError")

\* C8 as amended: with orientation 'LAS' the call raises NotImplementedError
\* if and only if no reference image is supplied (the template fallback),
\* and then whatever the other inputs and before any template lookup; with
\* a reference image supplied 'LAS' is ignored and the args are returned.
\* NotImplementedError is raised in no other case.
C8_LasRaisesWithoutReference ==
    AntsDone =>
        /\ (ants.inp.orientation = "LAS" /\ ~ants.inp.reference_image) =>
              (ants.pc = "raised" /\ ants.exc = "NotImplementedError")
        /\ (ants.inp.orientation = "LAS" /\ ants.inp.reference_image) =>
              (ants.pc = "returned" /\ ants.exc = "none")
        /\ (ants.exc = "NotImplementedError") =>
              (ants.inp.orientation = "LAS" /\ ~ants.inp.reference_image)

\* C8 witness: 'LAS' without a reference image raised NotImplementedError
\* although the template lookup would have failed too.
C8_Witness ==
    /\ prog = "ants"
    /\ ants.pc = "raised"
    /\ ants.exc = "NotImplementedError"
    /\ ants.inp.orientation = "LAS"
    /\ ants.inp.template = "nonunique"
    /\ ants.inp.moving_mask /\ ants.inp.lesion_mask

(***************************************************************************)
(* Claims about the echo gate                                              *)
(***************************************************************************)

\* the number of distinct echo indices the BOLD input carries
DistinctEchoes(bf) == Cardinality({bf.files[i] : i \in DOMAIN bf.files} \ {0})

\* The part of C9 about init_func_preproc_wf: it raises and returns no
\* workflow exactly for two distinct echo indices, is multi-echo exactly for
\* three or more, and handles none or one as single-echo.
FuncEchoGateContract ==
    (prog = "func" /\ func.pc # "start") =>
        LET n == DistinctEchoes(func.bold_file)
        IN  /\ (func.pc = "raised") <=> (n = 2)
            /\ (func.pc = "raised") => func.exc = "RuntimeError"
            /\ func.multiecho <=> (n >= 3)
            /\ (n <= 1) => (func.pc # "raised" /\ ~func.multiecho)
            /\ Len(func.echo_idxs) = n

\* C9: init_func_preproc_wf raises and returns no workflow for exactly two
\* distinct echo indices, is multi-echo if and only if there are at least
\* three, and single-echo for none or one; init_reference_workflow uses the
\* same threshold: it takes its input as multi-echo (and uses the first file
\* of the list) if and only if there are more than two echo indices.
C9_EchoThresholds ==
    /\ FuncEchoGateContract
    /\ (prog = "refwf" /\ refwf.pc # "start") =>
          LET n == DistinctEchoes(refwf.bold_file)
          IN  /\ refwf.multiecho <=> (n > 2)
              /\ refwf.multiecho => refwf.in_files = "bold_file[0]"
              /\ (refwf.pc = "returned" /\ ~refwf.multiecho) =>
                    refwf.in_files = "bold_file"

(***************************************************************************)
(* Claims about the fieldmap-estimator loop                                *)
(***************************************************************************)

\* "the suffixes of its sources are all 'epi'"
AllEpi(ss) == Len(ss) > 0 /\ \A k \in DOMAIN ss : ss[k] = "epi"

\* "exactly one 'bold' and one 'epi'"
OneBoldOneEpi(ss) ==
    /\ Len(ss) = 2
    /\ Cardinality({k \in DOMAIN ss : ss[k] = "bold"}) = 1
    /\ Cardinality({k \in DOMAIN ss : ss[k] = "epi"}) = 1

\* the estimators the loop has dealt with so far
Handled ==
    {j \in DOMAIN subj.estimators :
        j < subj.i \/ (j = subj.i /\ subj.pc = "raised" /\ subj.at = "loop")}

\* C10: a PEPOLAR estimator the loop comes to is wired if and only if its
\* sources' suffixes are all 'epi' or exactly one 'bold' and one 'epi'; with
\* any other combination the loop raises NotImplementedError at that
\* estimator; MAPPED and PHASEDIFF estimators never raise and are not wired
\* by hand.
C10_PepolarWiring ==
    prog = "subject" =>
        /\ \A j \in Handled :
              LET est == subj.estimators[j]
                  ok == AllEpi(est.suffices) \/ OneBoldOneEpi(est.suffices)
              IN  /\ (est.method = "PEPOLAR") =>
                        /\ (j \in subj.pepolar) <=> ok
                        /\ ~ok => /\ subj.pc = "raised"
                                  /\ subj.exc = "NotImplementedError"
                                  /\ j = subj.i
                  /\ (est.method \in {"MAPPED", "PHASEDIFF"}) =>
                        /\ j \notin subj.pepolar
                        /\ j \notin subj.syn
                        /\ j \in subj.skipped
                        /\ ~(subj.pc = "raised" /\ j = subj.i)
        /\ (subj.pc = "raised" /\ subj.at = "loop") =>
              /\ subj.exc = "NotImplementedError"
              /\ subj.estimators[subj.i].method = "PEPOLAR"
        /\ (subj.exc = "NotImplementedError") =>
              (subj.pc = "raised" /\ subj.at = "loop")
        /\ \A j \in subj.pepolar : subj.estimators[j].method = "PEPOLAR"

\* C10 witness: the loop has ended with a bold+epi PEPOLAR estimator wired
\* and a MAPPED or PHASEDIFF estimator passed over.
C10_Witness ==
    /\ prog = "subject"
    /\ subj.pc = "returned"
    /\ \E j \in subj.pepolar :
          subj.estimators[j].suffices = <<"epi", "bold">>
    /\ subj.skipped # {}

(***************************************************************************)
(* Claims about init_anat_preproc_wf                                       *)
(***************************************************************************)

AnatDone == prog = "anat" /\ anat.pc \in {"returned", "raised"}

\* the call asks to skip skull-stripping, or leaves it to a detection that
\* finds every image stripped
AlreadyStripped ==
    \/ anat.args.skull_strip_mode = "skip"
    \/ /\ anat.args.skull_strip_mode = "auto"
       /\ \A i \in DOMAIN anat.args.t2w : anat.args.t2w[i]

\* C11 as stated: every finished call with mode 'skip', or 'auto' and all
\* images stripped, has raised NotImplementedError and returned no workflow;
\* every other finished call has built the brain extraction.
C11_Original ==
    AnatDone =>
        IF AlreadyStripped
        THEN anat.pc = "raised" /\ anat.exc = "NotImplementedError"
        ELSE anat.brain_extraction_wf

\* C11: a finished call without existing derivatives has raised
\* NotImplementedError, with no brain extraction built, exactly when the mode
\* is 'skip' or is 'auto' with every image detected as stripped, and has built
\* the brain extraction otherwise; a call with existing derivatives neither
\* raises NotImplementedError nor builds the brain extraction.
C11_StrippedRaisesWithoutDerivatives ==
    AnatDone =>
        IF anat.args.existing_derivatives
        THEN anat.exc # "NotImplementedError" /\ ~anat.brain_extraction_wf
        ELSE IF AlreadyStripped
             THEN /\ anat.pc = "raised"
                  /\ anat.exc = "NotImplementedError"
                  /\ ~anat.brain_extraction_wf
             ELSE /\ anat.brain_extraction_wf
                  /\ anat.exc # "NotImplementedError"

\* mode 'auto' on two stripped images has raised NotImplementedError
C11_Witness ==
    /\ AnatDone
    /\ ~anat.args.existing_derivatives
    /\ anat.args.skull_strip_mode = "auto"
    /\ anat.args.t2w = <<TRUE, TRUE>>
    /\ anat.exc = "NotImplementedError"

\* C18: every connection init_anat_preproc_wf requests names, on inputnode,
\* outputnode and buffernode, only fields these nodes were declared with, in
\* the existing-derivatives branch and in the full build.
C18_PortsDeclared ==
    prog = "anat" => NotFound(anat.declared, anat.connections) = {}

(***************************************************************************)
(* Claims about fix_multi_source_name                                      *)
(***************************************************************************)

FmsDone == prog = "fix_multi_source_name" /\ fms.pc \in {"returned", "raised"}

\* C12: for a path or a non-empty list of BIDS paths the call returns, in the
\* directory of the first path, the name sub-<label of the first path>_
\* <modality>.nii.gz, the modality being T2w when none is given; the session
\* is dropped and no path after the first has any influence.
C12_NamedAfterFirstPath ==
    FmsDone =>
        LET first == fms.inp.files[1]
            modality == IF fms.inp.modality = "default" THEN "T2w"
                        ELSE fms.inp.modality
            name == <<"sub", "-", first.sub, "_", modality, ".nii.gz">>
        IN  /\ fms.pc = "returned"
            /\ fms.out = IF first.dir = <<>> THEN name
                         ELSE first.dir \o <<"/">> \o name

\* a list of two sessions in different directories, default modality
C12_Witness ==
    /\ FmsDone
    /\ fms.inp.is_list
    /\ Len(fms.inp.files) = 2
    /\ fms.inp.files[1].dir # fms.inp.files[2].dir
    /\ fms.inp.files[1].sub # fms.inp.files[2].sub
    /\ fms.inp.files[1].ses = "test"
    /\ fms.inp.modality = "default"
    /\ fms.out = <<"/", "p", "/", "sub", "-", "045", "_", "T2w", ".nii.gz">>

(***************************************************************************)
(* Claims about get_template_specs                                         *)
(***************************************************************************)

TplDone == prog = "get_template_specs" /\ tpl.pc \in {"returned", "raised"}

\* the call names no resolution at all
NoResolutionGiven ==
    /\ "res" \notin DOMAIN tpl.args.template_spec
    /\ "resolution" \notin DOMAIN tpl.args.template_spec
    /\ tpl.args.default_resolution = "omitted"

\* C13: a call whose spec has neither 'res' nor 'resolution' and that passes
\* no default_resolution returns the spec {'resolution': 1}.
C13_DefaultResolutionOne ==
    (TplDone /\ NoResolutionGiven /\ tpl.pc = "returned") =>
        tpl.out_spec["resolution"] = "1"

C15_ReversesAndSelfInverse ==
    prog = "probseg_fast2bids" =>
        /\ f2b.calls >= 1 =>
              f2b.first = <<f2b.inlist[3], f2b.inlist[2], f2b.inlist[1]>>
        /\ f2b.calls = 2 => f2b.out = f2b.inlist

\* FAST order in, BIDS order after one call, FAST order again after two
C15_Witness ==
    /\ prog = "probseg_fast2bids"
    /\ f2b.calls = 2
    /\ f2b.inlist = <<"csf", "wm", "gm">>
    /\ f2b.first = <<"gm", "wm", "csf">>
    /\ f2b.out = <<"csf", "wm", "gm">>

(***************************************************************************)
(* Claims about _get_wf_name                                               *)
(***************************************************************************)

\* an entity as the claim has it appear in the name: "-" and "." turned to
\* "_", spaces dropped, "_bold" turned to "_wf"
Normalised(chunk) ==
    CASE chunk = <<"t", "a", "s", "k", "-", "n", "b", "a", "c", "k">> ->
             <<"t", "a", "s", "k", "_", "n", "b", "a", "c", "k">>
      [] chunk = <<"r", "u", "n", "-", "0", "1">> ->
             <<"r", "u", "n", "_", "0", "1">>
      [] chunk = <<"e", "c", "h", "o", "-", "1">> ->
             <<"e", "c", "h", "o", "_", "1">>
      [] chunk = <<"a", "c", "q", "-", "a", " ", "b">> ->
             <<"a", "c", "q", "_", "a", "b">>
      [] chunk = <<"a", "c", "q", "-", "a", ".", "b">> ->
             <<"a", "c", "q", "_", "a", "_", "b">>
      [] chunk = <<"t", "a", "s", "k", "-", "b", "o", "l", "d">> ->
             <<"t", "a", "s", "k", "_", "w", "f">>

\* C16: the name is func_preproc_ followed by the stem without its subject
\* entity, with "-" and "." replaced by "_", spaces removed and _bold
\* replaced by _wf (a stem that is only sub-01_bold leaves the bare word
\* bold, which holds no _bold); the name holds no "-", "." or space.
C16_WorkflowName ==
    (prog = "get_wf_name" /\ wfn.pc = "returned") =>
        LET ents == wfn.inp.entities
        IN  /\ wfn.out =
                  <<"f", "u", "n", "c", "_", "p", "r", "e", "p", "r", "o", "c", "_">>
                  \o IF ents = <<>> THEN <<"b", "o", "l", "d">>
                     ELSE join(<<"_">>,
                               [i \in DOMAIN ents |-> Normalised(ents[i])])
                          \o <<"_", "w", "f">>
            /\ \A i \in DOMAIN wfn.out : wfn.out[i] \notin {"-", ".", " "}

\* sub-01_task-nback_run-01_bold.nii.gz in a directory gives
\* func_preproc_task_nback_run_01_wf
C16_Witness ==
    /\ prog = "get_wf_name"
    /\ wfn.pc = "returned"
    /\ wfn.inp.dir # <<>>
    /\ wfn.inp.entities = <<<<"t", "a", "s", "k", "-", "n", "b", "a", "c", "k">>,
                            <<"r", "u", "n", "-", "0", "1">>>>
    /\ wfn.out = <<"f", "u", "n", "c", "_", "p", "r", "e", "p", "r", "o", "c", "_", "t", "a", "s", "k", "_", "n", "b", "a", "c", "k", "_", "r", "u", "n", "_", "0", "1", "_", "w", "f">>

(***************************************************************************)
(* Claims about extract_entities                                           *)
(***************************************************************************)

\* the distinct values entity k takes among the files of the call
ValuesOf(k) ==
    {ent.file_list.vals[i][k] :
        i \in {j \in DOMAIN ent.file_list.vals : k \in DOMAIN ent.file_list.vals[j]}}

\* C17: the result has one entry for each entity found in any file: the bare
\* value when all its occurrences are equal, otherwise the distinct values in
\* ascending order.  The entry is a function of the set of files alone, so
\* neither their order nor their repetition nor passing one path instead of a
\* one-element list changes it.
C17_CommonEntities ==
    (prog = "extract_entities" /\ ent.pc = "returned") =>
        LET files == ent.file_list.vals
        IN  /\ DOMAIN ent.out = UNION {DOMAIN files[i] : i \in DOMAIN files}
            /\ \A k \in DOMAIN ent.out :
                  LET v == ent.out[k].vals
                  IN  /\ {v[i] : i \in DOMAIN v} = ValuesOf(k)
                      /\ Len(v) = Cardinality(ValuesOf(k))
                      /\ \A i \in 1..(Len(v) - 1) : v[i] < v[i + 1]
                      /\ ent.out[k].scalar <=> (Cardinality(ValuesOf(k)) = 1)

\* three files of one subject, runs 2, 1 and 2: subject bare, run [1, 2]
C17_Witness ==
    /\ prog = "extract_entities"
    /\ ent.pc = "returned"
    /\ Len(ent.file_list.vals) = 3
    /\ \A i \in 1..3 : DOMAIN ent.file_list.vals[i] = {"subject", "run"}
    /\ ent.file_list.vals[1]["run"] = 2
    /\ ent.file_list.vals[2]["run"] = 1
    /\ ent.file_list.vals[3]["run"] = 2
    /\ ent.out["subject"].scalar
    /\ ent.out["run"] = [scalar |-> FALSE, vals |-> <<1, 2>>]

(***************************************************************************)
(* Claims about init_bold_reg_wf                                           *)
(***************************************************************************)

RegDone == prog = "bold_reg" /\ reg.pc \in {"returned", "raised"}

\* C19: a call with bold2t1w_init 'header' or 'register' returns a workflow;
\* a call with any other value raises ValueError.
C19_BothInitsAccepted ==
    RegDone =>
        IF reg.args.bold2t1w_init \in {"header", "register"}
        THEN reg.pc = "returned"
        ELSE reg.pc = "raised" /\ reg.exc = "ValueError"

(***************************************************************************)
(* Claims about init_bold_reference_wf                                     *)
(***************************************************************************)

\* C20: a workflow returned for gen_report=True holds the node mask_reportlet,
\* fed the reference image and the mask of outputnode, whatever pre_mask and
\* sbref_files are.
C20_MaskReportletWhenGenReport ==
    (prog = "bold_reference" /\ bref.pc = "returned" /\ bref.args.gen_report)
        => MaskReportletConnections \subseteq bref.connections

(***************************************************************************)
(* Claims about the build-then-run of the single-subject workflow          *)
(***************************************************************************)

\* the session has ended in an error or has got past bidssrc
BuildRunDone == prog = "build_run" /\ brun.pc \in {"raised", "running"}

\* functional processing is requested and the subject has no BOLD image
FuncWithoutBold ==
    ~brun.args.anat_only /\ IsEmpty(brun.args.subject_data["bold"])

\* C21 as stated: with functional processing requested and no BOLD image the
\* session ends with the FileNotFoundError of the data grabber.
C21_Original ==
    (BuildRunDone /\ FuncWithoutBold) =>
        /\ brun.exc = "FileNotFoundError"
        /\ brun.raised_by = "bidssrc"

\* C21: with functional processing requested and no BOLD image the session
\* ends at build time with the RuntimeError of init_single_subject_wf; no
\* node, not even the data grabber, has run.
C21_RuntimeErrorAtBuild ==
    (BuildRunDone /\ FuncWithoutBold) =>
        /\ brun.pc = "raised"
        /\ brun.exc = "RuntimeError"
        /\ brun.raised_by = "init_single_subject_wf"
        /\ ~brun.bidssrc_ran

\* a subject with a T2w image and no BOLD image: RuntimeError from the build
C21_Witness ==
    /\ BuildRunDone
    /\ FuncWithoutBold
    /\ ~IsEmpty(brun.args.subject_data["t2w"])
    /\ brun.exc = "RuntimeError"
    /\ brun.raised_by = "init_single_subject_wf"

(***************************************************************************)
(* C23: merged transform lists                                             *)
(***************************************************************************)

\* the resampling workflows have been built for a single-echo run
XfmBuilt == prog = "bold_trans" /\ xfm.pc = "done" /\ ~xfm.args.multiecho

\* every slot of a Merge node with the given list has exactly one source and
\* the sources are, in slot order, the given list
MergeIs(conns, list) ==
    LET \* local
        \* `niu.Merge(n)`: the input slots in1..inN of the node
        MergeSlots(n) == {Slot(k) : k \in 1..n}
    IN  /\ \A c \in conns : c[3] = "merge_xforms" => c[4] \in MergeSlots(Len(list))
        /\ \A k \in 1..Len(list) :
              Cardinality(SourcesOf(conns, "merge_xforms", Slot(k))) = 1
        /\ MergedList(conns, "merge_xforms", Len(list)) = list

\* C23: the merged transform list of init_bold_t1_trans_wf (single echo) is
\* [bold2anat, fieldwarp if use_fieldwarp, hmc_xforms] and that of
\* init_bold_std_trans_wf is [anat2std_xfm, bold2anat, fieldwarp if
\* use_fieldwarp, hmc_xforms]: head motion comes last, every slot of the
\* Merge node has exactly one connection and none is empty.
C23_HmcLastAllSlotsConnected ==
    XfmBuilt =>
        /\ MergeIs(xfm.t1,
                   IF xfm.args.use_fieldwarp
                   THEN <<"bold2anat", "fieldwarp", "hmc_xforms">>
                   ELSE <<"bold2anat", "hmc_xforms">>)
        /\ MergeIs(xfm.std,
                   IF xfm.args.use_fieldwarp
                   THEN <<"anat2std_xfm", "bold2anat", "fieldwarp",
                          "hmc_xforms">>
                   ELSE <<"anat2std_xfm", "bold2anat", "hmc_xforms">>)

\* both workflows built with the fieldwarp: head motion is in the last slot
C23_Witness ==
    /\ XfmBuilt
    /\ xfm.args.use_fieldwarp
    /\ <<"inputnode", "hmc_xforms", "merge_xforms", "in3">> \in xfm.t1
    /\ <<"inputnode", "hmc_xforms", "merge_xforms", "in4">> \in xfm.std

(***************************************************************************)
(* C22: assignments and rewiring after connection                          *)
(***************************************************************************)

\* the build of the functional workflow is past its reporting block
FpwReported ==
    prog = "func_preproc" /\ fpw.pc \in {"nosdc", "sdc", "unwarp", "done"}

\* the PEPOLAR branch has run to its end
PeWfDone == prog = "pepolar_rewire" /\ pewf.pc = "done"

\* base_directory and source_file of the two report sinks
ReportSinkAssignments ==
    {<<n, f>> : n \in {"ds_report_summary", "ds_report_validation"},
                f \in {"base_directory", "source_file"}}

FpwSdcSingleEcho ==
    /\ prog = "func_preproc"
    /\ fpw.pc = "done"
    /\ fpw.args.has_fieldmap
    /\ ~fpw.args.multiecho

\* the fieldwarp port of a resampling workflow's inputnode feeds a slot of
\* its merge_xforms node
FieldwarpMerged(conns) ==
    \E c \in conns : /\ c[1] = "inputnode" /\ c[2] = "fieldwarp"
                     /\ c[3] = "merge_xforms"

\* C24: with a fieldmap and a single echo, the fieldwarp of unwarp_wf is
\* connected to the inputnode of bold_t1_trans_wf and of bold_std_trans_wf,
\* and both workflows are built with use_fieldwarp true, so that it reaches
\* their merge_xforms node.
C24_FieldwarpInBothChains ==
    FpwSdcSingleEcho =>
        /\ <<"unwarp_wf", "outputnode.fieldwarp", "bold_t1_trans_wf",
             "inputnode.fieldwarp">> \in fpw.connections
        /\ <<"unwarp_wf", "outputnode.fieldwarp", "bold_std_trans_wf",
             "inputnode.fieldwarp">> \in fpw.connections
        /\ FieldwarpMerged(fpw.std_trans)
        /\ FieldwarpMerged(fpw.t1_trans)

(***************************************************************************)
(* C25: the retry discipline of the CompCor wrappers                       *)
(***************************************************************************)

\* the wrapper has returned or raised
CompCorOver == cc.pc \in {"returned", "raised"}

\* What the counters say at each point of the loop: every failure within
\* the budget has been followed by one sleep, and nothing else has.
RetryCounts ==
    prog = "compcor" =>
        /\ cc.pc = "sleep" =>
              /\ cc.outcome = "LinAlgError"
              /\ cc.failures \in 1..MaxRetries
              /\ cc.sleeps = cc.failures - 1
              /\ cc.attempts = cc.failures
        /\ cc.pc = "call" =>
              cc.sleeps = cc.failures /\ cc.attempts = cc.failures
        /\ cc.pc = "returned" =>
              cc.sleeps = cc.failures /\ cc.attempts = cc.failures + 1
        /\ (cc.pc = "raised" /\ cc.exc.type = "LinAlgError") =>
              /\ cc.failures = MaxRetries + 1
              /\ cc.sleeps = MaxRetries
              /\ cc.attempts = cc.failures
        /\ (cc.pc = "raised" /\ cc.exc.type # "LinAlgError") =>
              /\ cc.exc.attempt = cc.attempts
              /\ cc.sleeps = cc.failures
              /\ cc.attempts = cc.failures + 1
        /\ (cc.outcome = "LinAlgError" /\ cc.failures <= MaxRetries) =>
              cc.pc \in {"sleep", "call"}

\* What a step does: a pending sleep is one sleep and no attempt, the step
\* after it is one attempt and no sleep, and nothing follows the end.
RetryStep ==
    prog = "compcor" =>
        /\ cc.pc = "sleep" =>
              /\ cc'.pc = "call"
              /\ cc'.sleeps = cc.sleeps + 1
              /\ cc'.attempts = cc.attempts
        /\ cc.pc = "call" =>
              /\ cc'.attempts = cc.attempts + 1
              /\ cc'.sleeps = cc.sleeps
        /\ CompCorOver => cc' = cc

\* C25: in the retry wrappers each caught LinAlgError within the budget is
\* followed by exactly one sleep and then exactly one new attempt, no sleep
\* follows a success or the final failure, an exception of another type
\* propagates from the attempt that raised it with no sleep and no retry,
\* and every call of _run_interface comes to an end.
C25_RetryDiscipline ==
    /\ []RetryCounts
    /\ [][RetryStep]_vars
    /\ <>(prog = "compcor" => CompCorOver)

\* a call that failed, slept, tried again and returned
C25_Witness ==
    /\ prog = "compcor"
    /\ cc.pc = "returned"
    /\ cc.failures = 2
    /\ cc.sleeps = 2
    /\ cc.attempts = 3

(***************************************************************************)
(* C26: one source per input port                                          *)
(***************************************************************************)

\* init_func_preproc_wf has returned the workflow
FpwReturned == prog = "func_preproc" /\ fpw.pc = "done"

\* the port has exactly one source
SingleSource(node, port) ==
    Cardinality(SourcesOf(fpw.connections, node, port)) = 1

C28_JoinSourcesExist ==
    prog = "func_preproc" =>
        \A j \in fpw.joins :
            /\ j[2] \in fpw.created
            /\ j[2] \in fpw.iterables
            /\ j[1] = "join_echos" =>
                  j[2] = (IF fpw.args.run_stc THEN "meepi_echos"
                          ELSE "boldbuffer")

(***************************************************************************)
(* C27: the source of the reference inputs                                 *)
(***************************************************************************)

\* init_single_subject_wf has returned or raised
SubjOver == prog = "subject" /\ subj.pc \in {"returned", "raised"}

\* The reference inputs of a functional workflow.
ReferencePorts ==
    {"inputnode.ref_file", "inputnode.bold_ref_xfm",
     "inputnode.validation_report", "inputnode.n_dummy_scans"}

\* the nodes that feed a reference input of the functional workflow
ReferenceSources(port) ==
    {s[1] : s \in SourcesOf(subj.connections, "func_preproc_wf", port)}

\* C27: for every list of fieldmap estimators no connection to a reference
\* input (ref_file, bold_ref_xfm, validation_report, n_dummy_scans) of the
\* functional workflow is refused or doubled, and a returned workflow has
\* each of them fed by exactly one source: the reference workflow of the
\* run without a fieldmap or without an ANAT estimator, otherwise one SyN
\* preprocessing workflow, also with several ANAT estimators.
C27_ReferenceInputsOneSource ==
    SubjOver =>
        /\ subj.exc # "Exception"
        /\ \A port \in ReferencePorts :
              /\ Cardinality(ReferenceSources(port)) <= 1
              /\ subj.pc = "returned" =>
                    /\ Cardinality(ReferenceSources(port)) = 1
                    /\ AnyAnat(subj.estimators)
                          <=> ReferenceSources(port) # {"ref_wf"}

====
